---- MODULE Spec2Model ----
(***************************************************************************)
(* Model of the lezec.cz diary import of backend/lists/services.py: the    *)
(* identifier encoder, the page fetcher, table discovery and extraction,   *)
(* the locale filter, the record matcher and the importer that creates     *)
(* Tick rows, run by several concurrent requests against one database.     *)
(*                                                                         *)
(* Text is modelled as a sequence of Unicode code points (str), so that    *)
(* substring tests, case mapping and hex encoding are computed as the      *)
(* code computes them.                                                     *)
(***************************************************************************)
EXTENDS Integers, Sequences, FiniteSets, TLC

VARIABLES
    catalog,    \* the catalog store: [areas, problems], both in store order
    remote,     \* the remote site: [uid, page, other]
    ticks,      \* the Tick table: a set of rows [id, user, problem, date, notes]
    nextId,     \* next primary key of the Tick table
    runs,       \* per request: the local state of import_lezec_diary
    fn          \* argument/result cell of the pure-function specifications

vars == <<catalog, remote, ticks, nextId, runs, fn>>

----------------------------------------------------------------------------
(* Bounds *)

NumRuns == 2          \* concurrent import requests
NumUsers == 2         \* Django users
MaxNameLen == 3       \* length of the display names fed to the encoder
MaxTextLen == 3       \* length of the names fed to the text normalizer
MaxProblems == 2      \* rows of the BoulderProblem table of the catalog writes
MaxTables == 3        \* tables of the pages fed to table discovery
MaxTicks == 3         \* entries of the lists fed to the locale filter
MaxRows == 5          \* data rows of the tables fed to the extraction

----------------------------------------------------------------------------
(* str helpers *)

RECURSIVE Concat(_)
\* "".join(parts)
Concat(parts) ==
    IF parts = <<>> THEN <<>> ELSE Head(parts) \o Concat(Tail(parts))

\* sub in s
Contains(s, sub) ==
    \E i \in 0..(Len(s) - Len(sub)) :
        \A j \in 1..Len(sub) : s[i + j] = sub[j]

\* s[:n]
Prefix(s, n) == SubSeq(s, 1, IF n < Len(s) THEN n ELSE Len(s))

\* c.lower() for one code point (ASCII, Latin-1 and Latin Extended-A letters)
LowerChar(c) ==
    IF c \in 65..90 THEN c + 32
    ELSE IF c \in 192..222 /\ c # 215 THEN c + 32
    ELSE IF c \in (256..311) \cup (330..375) /\ c % 2 = 0 /\ c # 304 THEN c + 1
    ELSE IF c \in (313..327) \cup (377..381) /\ c % 2 = 1 THEN c + 1
    ELSE c

\* c.upper() for one code point (same repertoire)
UpperChar(c) ==
    IF c \in 97..122 THEN c - 32
    ELSE IF c \in 224..254 /\ c # 247 THEN c - 32
    ELSE IF c \in (256..311) \cup (330..375) /\ c % 2 = 1 /\ c # 305 THEN c - 1
    ELSE IF c \in (313..328) \cup (377..382) /\ c % 2 = 0 THEN c - 1
    ELSE c

\* s.lower()
Lower(s) == [i \in 1..Len(s) |-> LowerChar(s[i])]

\* s.upper()
Upper(s) == [i \in 1..Len(s) |-> UpperChar(s[i])]

\* whitespace as str.strip() and \s see it
IsSpace(c) == c \in {9, 10, 11, 12, 13, 32, 160}

RECURSIVE LStrip(_)
LStrip(s) == IF s # <<>> /\ IsSpace(Head(s)) THEN LStrip(Tail(s)) ELSE s

RECURSIVE RStrip(_)
RStrip(s) ==
    IF s # <<>> /\ IsSpace(s[Len(s)]) THEN RStrip(SubSeq(s, 1, Len(s) - 1)) ELSE s

\* s.strip()
Strip(s) == RStrip(LStrip(s))

----------------------------------------------------------------------------
(* Identifier Encoder *)

\* the three result components of a strategy tuple
Strategy(identifier, uppercase_hex, use_w1250) ==
    [identifier |-> identifier, uppercase_hex |-> uppercase_hex,
     use_w1250 |-> use_w1250]

\* mutant: the two uppercase-hex strategies come first
_generate_username_strategies_UpperHexFirst(lezec_username) ==
    LET username_lower == Lower(lezec_username)
        username_upper == Upper(lezec_username)
        username_capitalized ==
            IF Len(lezec_username) > 1
            THEN <<UpperChar(lezec_username[1])>> \o Lower(Tail(lezec_username))
            ELSE Upper(lezec_username)
    IN  << Strategy(username_lower, TRUE, TRUE),
           Strategy(lezec_username, TRUE, TRUE),
           Strategy(username_lower, FALSE, TRUE),
           Strategy(username_lower, FALSE, FALSE),
           Strategy(lezec_username, FALSE, TRUE),
           Strategy(lezec_username, FALSE, FALSE),
           Strategy(username_capitalized, FALSE, TRUE),
           Strategy(username_capitalized, FALSE, FALSE),
           Strategy(username_upper, FALSE, TRUE),
           Strategy(username_upper, FALSE, FALSE) >>

_generate_username_strategies(lezec_username) ==
    LET username_lower == Lower(lezec_username)
        username_upper == Upper(lezec_username)
        username_capitalized ==
            IF Len(lezec_username) > 1
            THEN <<UpperChar(lezec_username[1])>> \o Lower(Tail(lezec_username))
            ELSE Upper(lezec_username)
    IN  << Strategy(username_lower, FALSE, TRUE),
           Strategy(username_lower, FALSE, FALSE),
           Strategy(lezec_username, FALSE, TRUE),
           Strategy(lezec_username, FALSE, FALSE),
           Strategy(username_capitalized, FALSE, TRUE),
           Strategy(username_capitalized, FALSE, FALSE),
           Strategy(username_upper, FALSE, TRUE),
           Strategy(username_upper, FALSE, FALSE),
           Strategy(username_lower, TRUE, TRUE),
           Strategy(lezec_username, TRUE, TRUE) >>

\* the byte of one code point in windows-1250, or -1 when the code point is
\* outside the repertoire (ASCII and the Czech letters are modelled)
Cp1250Byte(c) ==
    IF c < 128 THEN c
    ELSE CASE c = 193 -> 193 [] c = 225 -> 225 [] c = 201 -> 201 [] c = 233 -> 233
           [] c = 205 -> 205 [] c = 237 -> 237 [] c = 218 -> 218 [] c = 250 -> 250
           [] c = 221 -> 221 [] c = 253 -> 253 [] c = 268 -> 200 [] c = 269 -> 232
           [] c = 282 -> 204 [] c = 283 -> 236 [] c = 344 -> 216 [] c = 345 -> 248
           [] c = 352 -> 138 [] c = 353 -> 154 [] c = 366 -> 217 [] c = 367 -> 249
           [] c = 381 -> 142 [] c = 382 -> 158
           [] OTHER -> -1

\* the value that stands for an exception leaving a function
Raised == <<-1>>

\* text.encode("windows-1250"): the bytes, or Raised for UnicodeEncodeError
EncodeWindows1250(text) ==
    IF \E i \in 1..Len(text) : Cp1250Byte(text[i]) = -1
    THEN Raised
    ELSE [i \in 1..Len(text) |-> Cp1250Byte(text[i])]

\* one hex digit as a code point
HexDigit(d, uppercase) ==
    IF d < 10 THEN 48 + d ELSE (IF uppercase THEN 55 ELSE 87) + d

RECURSIVE HexDigits(_, _)
HexDigits(n, uppercase) ==
    IF n < 16 THEN <<HexDigit(n, uppercase)>>
    ELSE HexDigits(n \div 16, uppercase) \o <<HexDigit(n % 16, uppercase)>>

\* f"{n:02x}" or f"{n:02X}"
Format02x(n, uppercase) ==
    IF n < 16 THEN <<48>> \o HexDigits(n, uppercase) ELSE HexDigits(n, uppercase)

\* "".join(f"{b:02x}" for b in values)
HexJoin(values, uppercase) ==
    Concat([i \in 1..Len(values) |-> Format02x(values[i], uppercase)])

\* mutant: the UnicodeEncodeError of the windows-1250 branch is not caught
_encode_to_lezec_hex_NoExcept(text, uppercase, use_windows1250) ==
    IF use_windows1250
    THEN IF EncodeWindows1250(text) = Raised
         THEN Raised
         ELSE HexJoin(EncodeWindows1250(text), uppercase)
    ELSE HexJoin(text, uppercase)

_encode_to_lezec_hex(text, uppercase, use_windows1250) ==
    IF use_windows1250 /\ EncodeWindows1250(text) # Raised
    THEN HexJoin(EncodeWindows1250(text), uppercase)
    ELSE HexJoin(text, uppercase)

----------------------------------------------------------------------------
(* Text constants of services.py *)

\* "Moravsky"
S_Moravsky == <<77, 111, 114, 97, 118, 115, 107, 253>>
\* "Kras"
S_Kras == <<75, 114, 97, 115>>
\* "Holstejn"
S_Holstejn == <<72, 111, 108, 353, 116, 101, 106, 110>>
\* "Josefovske Udoli"
S_Josefovske == <<74, 111, 115, 101, 102, 111, 118, 115, 107, 233, 32, 218, 100, 111, 108, 237>>
\* "Rudice"
S_Rudice == <<82, 117, 100, 105, 99, 101>>
\* "Skaly V Udoli Ricky"
S_SkalyRicky == <<83, 107, 225, 108, 121, 32, 86, 32, 218, 100, 111, 108, 237, 32, 344, 237, 269, 107, 121>>
\* "Sloup"
S_Sloup == <<83, 108, 111, 117, 112>>
\* "Vyvrelina"
S_Vyvrelina == <<86, 121, 118, 345, 101, 108, 105, 110, 97>>
\* "Zleby"
S_Zleby == <<381, 108, 101, 98, 121>>

MORAVSKY_KRAS_AREAS ==
    {S_Holstejn, S_Josefovske, S_Rudice, S_SkalyRicky, S_Sloup, S_Vyvrelina, S_Zleby}

\* "denicek"
S_denicek == <<100, 101, 110, 237, 269, 101, 107>>
\* "denik"
S_denik == <<100, 101, 110, 105, 107>>
\* "Datum"
S_Datum == <<68, 97, 116, 117, 109>>
\* "Cesta"
S_Cesta == <<67, 101, 115, 116, 97>>
\* "Klas"
S_Klas == <<75, 108, 97, 115>>
\* "cesta.php?key="
S_cesta_php_key == <<99, 101, 115, 116, 97, 46, 112, 104, 112, 63, 107, 101, 121, 61>>
\* "key"
S_key == <<107, 101, 121>>

----------------------------------------------------------------------------
(* The parsed page: [text, tables]; a table is a sequence of rows (tr), a   *)
(* row a sequence of cells [tag, text, anchor, href].                       *)

\* a cell without a link
Cell(tag, text) == [tag |-> tag, text |-> text, anchor |-> FALSE, href |-> <<>>]

\* a td cell whose content is <a href=...>text</a>
LinkCell(text, href) == [tag |-> "td", text |-> text, anchor |-> TRUE, href |-> href]

\* row.get_text()
RowText(row) == Concat([i \in 1..Len(row) |-> row[i].text])

\* table.get_text()
TableText(table) == Concat([i \in 1..Len(table) |-> RowText(table[i])])

\* soup.get_text()
GetText(soup) ==
    soup.text \o Concat([i \in 1..Len(soup.tables) |-> TableText(soup.tables[i])])

----------------------------------------------------------------------------
(* datetime.strptime(date_str, "%d.%m.%Y").date() *)

IsDigits(s) == \A i \in 1..Len(s) : s[i] \in 48..57

RECURSIVE DigitsValue(_)
DigitsValue(s) ==
    IF s = <<>> THEN 0 ELSE 10 * DigitsValue(SubSeq(s, 1, Len(s) - 1)) + (s[Len(s)] - 48)

RECURSIVE Split(_, _)
\* s.split(sep) for a one-character separator
Split(s, sep) ==
    IF \E i \in 1..Len(s) : s[i] = sep
    THEN LET i == CHOOSE k \in 1..Len(s) :
                      s[k] = sep /\ \A j \in 1..(k - 1) : s[j] # sep
         IN  <<SubSeq(s, 1, i - 1)>> \o Split(SubSeq(s, i + 1, Len(s)), sep)
    ELSE <<s>>

IsLeap(y) == (y % 4 = 0 /\ y % 100 # 0) \/ y % 400 = 0

DaysInMonth(y, m) ==
    IF m = 2 THEN (IF IsLeap(y) THEN 29 ELSE 28)
    ELSE IF m \in {4, 6, 9, 11} THEN 30 ELSE 31

\* <<date>> for a string that strptime accepts, <<>> for ValueError
ParseDate(date_str) ==
    LET parts == Split(date_str, 46)
    IN  IF Len(parts) # 3 THEN <<>>
        ELSE LET dd == parts[1]
                 mm == parts[2]
                 yy == parts[3]
             IN  IF /\ Len(dd) \in {1, 2} /\ IsDigits(dd)
                    /\ Len(mm) \in {1, 2} /\ IsDigits(mm)
                    /\ Len(yy) = 4 /\ IsDigits(yy)
                    /\ DigitsValue(yy) >= 1
                    /\ DigitsValue(mm) \in 1..12
                    /\ DigitsValue(dd) >= 1
                    /\ DigitsValue(dd) <= DaysInMonth(DigitsValue(yy), DigitsValue(mm))
                 THEN << [year |-> DigitsValue(yy), month |-> DigitsValue(mm),
                          day |-> DigitsValue(dd)] >>
                 ELSE <<>>

----------------------------------------------------------------------------
(* parse_qs(urlparse(urljoin(base_url, href)).query).get("key", [None])[0]  *)

\* the query of a URL: after the first "?", up to a "#"
UrlQuery(url) ==
    LET noFragment == Head(Split(url, 35))
        pieces == Split(noFragment, 63)
    IN  IF Len(pieces) < 2 THEN <<>>
        ELSE SubSeq(noFragment, Len(pieces[1]) + 2, Len(noFragment))

\* the values of the parameter `name`, in order; blank values are dropped
QueryValues(query, name) ==
    LET pairs == Split(query, 38)
        ValueOf(pair) ==
            LET kv == Split(pair, 61)
            IN  IF Len(kv) >= 2 /\ kv[1] = name
                THEN SubSeq(pair, Len(name) + 2, Len(pair))
                ELSE <<>>
    IN  SelectSeq([i \in 1..Len(pairs) |-> ValueOf(pairs[i])], LAMBDA v : v # <<>>)

\* the route id of a link, <<>> for None
RouteId(route_href) ==
    IF Contains(route_href, S_cesta_php_key)
    THEN LET values == QueryValues(UrlQuery(route_href), S_key)
         IN  IF values = <<>> THEN <<>> ELSE values[1]
    ELSE <<>>

----------------------------------------------------------------------------
(* Table Discovery & Extraction *)

\* the cells of a row with the given tag
CellsWithTag(row, tag) == SelectSeq(row, LAMBDA c : c.tag = tag)

\* mutant: the header is not tested for "Datum", "Cesta" and "Klas"
IsMainDiaryTable_NoMarkers(rows) ==
    /\ Len(rows) > 5
    /\ Len(CellsWithTag(rows[1], "th")) >= 4
    /\ LET tds == CellsWithTag(rows[2], "td")
       IN  /\ tds # <<>>
           /\ Strip(tds[1].text) # <<>>
           /\ Contains(Strip(tds[1].text), <<46>>)
           /\ Len(Strip(tds[1].text)) = 10

\* the test _find_main_diary_table applies to one table
IsMainDiaryTable(rows) ==
    /\ Len(rows) > 5
    /\ LET header_row == rows[1]
           header_text == RowText(header_row)
           header_cells == CellsWithTag(header_row, "th")
       IN  /\ Len(header_cells) >= 4
           /\ Contains(header_text, S_Datum)
           /\ Contains(header_text, S_Cesta)
           /\ Contains(header_text, S_Klas)
    /\ Len(rows) > 1
    /\ LET first_data_row == rows[2]
           tds == CellsWithTag(first_data_row, "td")
       IN  /\ tds # <<>>
           /\ LET first_cell_text == Strip(tds[1].text)
              IN  /\ first_cell_text # <<>>
                  /\ Contains(first_cell_text, <<46>>)
                  /\ Len(first_cell_text) = 10

\* the index of the table found, 0 for None
_find_main_diary_table(soup) ==
    IF \E i \in 1..Len(soup.tables) : IsMainDiaryTable(soup.tables[i])
    THEN CHOOSE i \in 1..Len(soup.tables) :
             /\ IsMainDiaryTable(soup.tables[i])
             /\ \A j \in 1..(i - 1) : ~IsMainDiaryTable(soup.tables[j])
    ELSE 0

\* <<tick_data>> for a row that parses, <<>> for None
_parse_tick_row(row) ==
    LET cells == row
    IN  IF Len(cells) < 4 THEN <<>>
        ELSE LET date_str == Strip(cells[1].text)
             IN  IF date_str = <<>> THEN <<>>
                 ELSE IF ParseDate(date_str) = <<>> THEN <<>>
                 ELSE IF ~cells[2].anchor THEN <<>>
                 ELSE << [name |-> Strip(cells[2].text),
                          lezec_id |-> RouteId(cells[2].href),
                          grade |-> Strip(cells[4].text),
                          date |-> ParseDate(date_str)[1],
                          style |-> IF Len(cells) > 5 THEN Strip(cells[6].text) ELSE <<>>,
                          location |-> Strip(cells[3].text)] >>

RECURSIVE ParseRowsUntilBad(_)
\* the entries of the rows up to the first row that does not parse
ParseRowsUntilBad(rows) ==
    IF rows = <<>> \/ _parse_tick_row(Head(rows)) = <<>> THEN <<>>
    ELSE _parse_tick_row(Head(rows)) \o ParseRowsUntilBad(Tail(rows))

\* mutant: the extraction ends at the first row that does not parse
_extract_ticks_from_diary_UntilBadRow(soup) ==
    LET main_table == _find_main_diary_table(soup)
    IN  IF main_table = 0 THEN <<>>
        ELSE ParseRowsUntilBad(Tail(soup.tables[main_table]))

_extract_ticks_from_diary(soup) ==
    LET main_table == _find_main_diary_table(soup)
    IN  IF main_table = 0 THEN <<>>
        ELSE LET rows == soup.tables[main_table]
             IN  Concat([i \in 1..(Len(rows) - 1) |-> _parse_tick_row(rows[i + 1])])

----------------------------------------------------------------------------
(* Locale Filter *)

\* mutant: every test is a case-insensitive substring test
_filter_moravsky_kras_ticks_Loose(tick_list) ==
    SelectSeq(tick_list,
              LAMBDA tick : \/ \E area \in MORAVSKY_KRAS_AREAS :
                                   Contains(Upper(tick.location), Upper(area))
                            \/ Contains(Upper(tick.location), Upper(S_Moravsky))
                            \/ Contains(Upper(tick.location), Upper(S_Kras)))

_filter_moravsky_kras_ticks(tick_list) ==
    SelectSeq(tick_list,
              LAMBDA tick : \/ tick.location \in MORAVSKY_KRAS_AREAS
                            \/ Contains(tick.location, S_Moravsky)
                            \/ Contains(tick.location, S_Kras))

----------------------------------------------------------------------------
(* Text Normalizer (boulders/utils.py) *)

\* the base letters of the precomposed letters of Latin-1 and Latin
\* Extended-A: the first code point of the NFD form, whose other code points
\* are combining marks (category Mn)
BaseLetters ==
    [c \in 192..382 |->
    CASE c \in {192, 193, 194, 195, 196, 197, 256, 258, 260} -> 65
      [] c \in {199, 262, 264, 266, 268} -> 67
      [] c \in {270} -> 68
      [] c \in {200, 201, 202, 203, 274, 276, 278, 280, 282} -> 69
      [] c \in {284, 286, 288, 290} -> 71
      [] c \in {292} -> 72
      [] c \in {204, 205, 206, 207, 296, 298, 300, 302, 304} -> 73
      [] c \in {308} -> 74
      [] c \in {310} -> 75
      [] c \in {313, 315, 317} -> 76
      [] c \in {209, 323, 325, 327} -> 78
      [] c \in {210, 211, 212, 213, 214, 332, 334, 336} -> 79
      [] c \in {340, 342, 344} -> 82
      [] c \in {346, 348, 350, 352} -> 83
      [] c \in {354, 356} -> 84
      [] c \in {217, 218, 219, 220, 360, 362, 364, 366, 368, 370} -> 85
      [] c \in {372} -> 87
      [] c \in {221, 374, 376} -> 89
      [] c \in {377, 379, 381} -> 90
      [] c \in {224, 225, 226, 227, 228, 229, 257, 259, 261} -> 97
      [] c \in {231, 263, 265, 267, 269} -> 99
      [] c \in {271} -> 100
      [] c \in {232, 233, 234, 235, 275, 277, 279, 281, 283} -> 101
      [] c \in {285, 287, 289, 291} -> 103
      [] c \in {293} -> 104
      [] c \in {236, 237, 238, 239, 297, 299, 301, 303} -> 105
      [] c \in {309} -> 106
      [] c \in {311} -> 107
      [] c \in {314, 316, 318} -> 108
      [] c \in {241, 324, 326, 328} -> 110
      [] c \in {242, 243, 244, 245, 246, 333, 335, 337} -> 111
      [] c \in {341, 343, 345} -> 114
      [] c \in {347, 349, 351, 353} -> 115
      [] c \in {355, 357} -> 116
      [] c \in {249, 250, 251, 252, 361, 363, 365, 367, 369, 371} -> 117
      [] c \in {373} -> 119
      [] c \in {253, 255, 375} -> 121
      [] c \in {378, 380, 382} -> 122
      [] OTHER -> c]

\* the code point that is left of c once its combining marks are removed
BaseChar(c) == IF c \in 192..382 THEN BaseLetters[c] ELSE c

\* unicodedata.normalize("NFD", s) with the characters of category Mn removed
StripMarks(s) ==
    LET kept == SelectSeq(s, LAMBDA c : c \notin 768..879)
    IN  [i \in 1..Len(kept) |-> BaseChar(kept[i])]

RECURSIVE CollapseSpaces(_)
\* re.sub(r"\s+", " ", s)
CollapseSpaces(s) ==
    IF s = <<>> THEN <<>>
    ELSE IF IsSpace(Head(s))
         THEN <<32>> \o CollapseSpaces(LStrip(s))
         ELSE <<Head(s)>> \o CollapseSpaces(Tail(s))

\* mutant: the whitespace at the ends is stripped before the marks are removed
normalize_problem_name_StripFirst(name) ==
    IF name = <<>> THEN <<>>
    ELSE CollapseSpaces(Lower(StripMarks(Strip(name))))

\* mutant: the name is not lowercased
normalize_problem_name_NoLower(name) ==
    IF name = <<>> THEN <<>>
    ELSE Strip(CollapseSpaces(StripMarks(name)))

normalize_problem_name(name) ==
    IF name = <<>> THEN <<>>
    ELSE Strip(CollapseSpaces(Lower(StripMarks(name))))

----------------------------------------------------------------------------
(* The catalog store: Area and BoulderProblem rows, in the store's order    *)

Area(id, name) == [id |-> id, name |-> name]

\* a BoulderProblem row as BoulderProblem.save() writes it when it is created
BoulderProblem(id, name, area, external_links) ==
    [id |-> id, name |-> name, name_normalized |-> normalize_problem_name(name),
     area |-> area, external_links |-> external_links]

\* Django's name__icontains on PostgreSQL: UPPER(name) LIKE UPPER('%sub%')
IContains(s, sub) == Contains(Upper(s), Upper(sub))

\* queryset.first(): <<row>> or <<>> for None
First(rows) == IF rows = <<>> THEN <<>> ELSE <<rows[1]>>

_get_moravsky_kras_areas(cat, tick_area) ==
    SelectSeq(cat.areas,
              LAMBDA a : \/ IContains(a.name, S_Moravsky)
                         \/ IContains(a.name, S_Kras)
                         \/ (tick_area # <<>> /\ IContains(a.name, tick_area)))

\* mutant: the area given to the query is not applied
find_by_normalized_name_AnyArea(cat, name, area) ==
    LET normalized == normalize_problem_name(name)
    IN  SelectSeq(cat.problems, LAMBDA b : b.name_normalized = normalized)

\* BoulderProblem.find_by_normalized_name(name, area=area)
find_by_normalized_name(cat, name, area) ==
    LET normalized == normalize_problem_name(name)
    IN  SelectSeq(cat.problems,
                  LAMBDA b : b.name_normalized = normalized /\ b.area = area.id)

\* link_url and f"key={boulder_id}" in link_url, for some link of the boulder
HasLinkWithKey(boulder, boulder_id) ==
    \E k \in 1..Len(boulder.external_links) :
        /\ boulder.external_links[k] # <<>>
        /\ Contains(boulder.external_links[k], S_key \o <<61>> \o boulder_id)

_find_boulder_by_external_id(cat, boulder_id, tick_area) ==
    LET moravsky_kras_areas == _get_moravsky_kras_areas(cat, tick_area)
        areaIds == {moravsky_kras_areas[i].id : i \in 1..Len(moravsky_kras_areas)}
        boulders_to_check ==
            IF moravsky_kras_areas # <<>>
            THEN SelectSeq(cat.problems, LAMBDA b : b.area \in areaIds)
            ELSE cat.problems
    IN  First(SelectSeq(boulders_to_check, LAMBDA b : HasLinkWithKey(b, boulder_id)))

\* the first loop of _find_boulder_by_name: per area, in order, the .first()
\* of the exact query, for the areas where it is not None
ExactNameHits(cat, boulder_name) ==
    LET moravsky_kras_areas == _get_moravsky_kras_areas(cat, <<>>)
        exact == [i \in 1..Len(moravsky_kras_areas) |->
                    First(find_by_normalized_name(cat, boulder_name,
                                                  moravsky_kras_areas[i]))]
    IN  SelectSeq(exact, LAMBDA hit : hit # <<>>)

\* mutant: the second loop forgets area=area in its filter
PartialNameHits_AnyArea(cat, boulder_name) ==
    LET moravsky_kras_areas == _get_moravsky_kras_areas(cat, <<>>)
        partial == [i \in 1..Len(moravsky_kras_areas) |->
                      First(SelectSeq(cat.problems,
                                      LAMBDA b : IContains(b.name,
                                                           Prefix(boulder_name, 10))))]
    IN  SelectSeq(partial, LAMBDA hit : hit # <<>>)

\* the second loop: per area, in order, the .first() of the name__icontains
\* query, for the areas where it is not None
PartialNameHits(cat, boulder_name) ==
    LET moravsky_kras_areas == _get_moravsky_kras_areas(cat, <<>>)
        partial == [i \in 1..Len(moravsky_kras_areas) |->
                      First(SelectSeq(cat.problems,
                                      LAMBDA b : /\ b.area = moravsky_kras_areas[i].id
                                                 /\ IContains(b.name,
                                                              Prefix(boulder_name, 10))))]
    IN  SelectSeq(partial, LAMBDA hit : hit # <<>>)

_find_boulder_by_name(cat, boulder_name) ==
    LET moravsky_kras_areas == _get_moravsky_kras_areas(cat, <<>>)
        exactHits == ExactNameHits(cat, boulder_name)
        partialHits == PartialNameHits(cat, boulder_name)
    IN  IF moravsky_kras_areas = <<>> THEN <<>>
        ELSE IF exactHits # <<>> THEN exactHits[1]
        ELSE IF partialHits # <<>> THEN partialHits[1]
        ELSE <<>>

\* mutant: the name is tried first, the external id only when the name fails
_find_matching_boulder_NameFirst(cat, tick_data) ==
    IF _find_boulder_by_name(cat, tick_data.name) # <<>>
    THEN _find_boulder_by_name(cat, tick_data.name)
    ELSE IF tick_data.lezec_id # <<>>
         THEN _find_boulder_by_external_id(cat, tick_data.lezec_id, tick_data.location)
         ELSE <<>>

\* mutant: the name strategy is left out
_find_matching_boulder_IdOnly(cat, tick_data) ==
    IF tick_data.lezec_id # <<>>
    THEN _find_boulder_by_external_id(cat, tick_data.lezec_id, tick_data.location)
    ELSE <<>>

\* <<problem>> or <<>> for None
_find_matching_boulder(cat, tick_data) ==
    LET boulder_name == tick_data.name
        boulder_id == tick_data.lezec_id
        problem == _find_boulder_by_external_id(cat, boulder_id, tick_data.location)
    IN  IF boulder_id # <<>> /\ problem # <<>>
        THEN problem
        ELSE _find_boulder_by_name(cat, boulder_name)

\* the tier whose result _find_matching_boulder returns
MatchTier(cat, tick_data) ==
    IF /\ tick_data.lezec_id # <<>>
       /\ _find_boulder_by_external_id(cat, tick_data.lezec_id, tick_data.location) # <<>>
    THEN "ExternalId"
    ELSE IF _get_moravsky_kras_areas(cat, <<>>) = <<>> THEN "Unmatched"
    ELSE IF ExactNameHits(cat, tick_data.name) # <<>> THEN "ExactNormalizedName"
    ELSE IF PartialNameHits(cat, tick_data.name) # <<>> THEN "PartialName"
    ELSE "Unmatched"

----------------------------------------------------------------------------
(* The Tick table *)

\* mutant: the table has no uniqueness constraint
UniqueTogether_Off(table, user, problem) == TRUE

\* Tick.Meta.unique_together = [["user", "problem"]]: the constraint admits a
\* new row for (user, problem)
UniqueTogether(table, user, problem) ==
    ~\E t \in table : t.user = user /\ t.problem = problem

\* Tick.objects.filter(user=user, problem=problem).first() is not None
TickExists(table, user, problem) ==
    \E t \in table : t.user = user /\ t.problem = problem

\* mutant: update_or_create on (user, problem): a row that exists is replaced
TickCreate_Overwrite(table, id, user, problem, date, notes, dbOk) ==
    IF ~dbOk
    THEN [raised |-> TRUE, table |-> table]
    ELSE [raised |-> FALSE,
          table |-> {t \in table : ~(t.user = user /\ t.problem = problem)}
                      \cup {[id |-> id, user |-> user, problem |-> problem,
                              date |-> date, notes |-> notes]}]

\* Tick.objects.create(...): the table afterwards; raised for IntegrityError
\* and for any other database error (dbOk = FALSE)
TickCreate(table, id, user, problem, date, notes, dbOk) ==
    IF ~UniqueTogether(table, user, problem) \/ ~dbOk
    THEN [raised |-> TRUE, table |-> table]
    ELSE [raised |-> FALSE,
          table |-> table \cup {[id |-> id, user |-> user, problem |-> problem,
                                 date |-> date, notes |-> notes]}]

\* the notes _create_tick writes
TickNotes(tick_data) ==
    IF tick_data.style # <<>>
    THEN <<"Imported from lezec.cz diary. Style: ", tick_data.style>>
    ELSE <<"Imported from lezec.cz diary">>

\* mutant: the except branch returns True as well
_create_tick_AlwaysTrue(table, id, user, problem, tick_data, dbOk) ==
    LET created == TickCreate(table, id, user, problem.id, tick_data.date,
                              TickNotes(tick_data), dbOk)
    IN  [ok |-> TRUE, raised |-> FALSE, table |-> created.table]

\* mutant: the exception of Tick.objects.create is not caught
_create_tick_NoExcept(table, id, user, problem, tick_data, dbOk) ==
    LET created == TickCreate(table, id, user, problem.id, tick_data.date,
                              TickNotes(tick_data), dbOk)
    IN  [ok |-> ~created.raised, raised |-> created.raised, table |-> created.table]

\* _create_tick: ok is its return value, table the Tick table afterwards, and
\* raised tells whether an exception leaves the function
_create_tick(table, id, user, problem, tick_data, dbOk) ==
    LET created == TickCreate(table, id, user, problem.id, tick_data.date,
                              TickNotes(tick_data), dbOk)
    IN  [ok |-> ~created.raised, raised |-> FALSE, table |-> created.table]

----------------------------------------------------------------------------
(* Data of the model: catalogs, pages, remote sites, display names *)

\* "Kniha"
S_Kniha == <<75, 110, 105, 104, 97>>
\* "Hrana"
S_Hrana == <<72, 114, 97, 110, 97>>
\* "Komin"
S_Komin == <<75, 111, 109, 237, 110>>
\* "Moravsky Kras"
S_MoravskyKras == <<77, 111, 114, 97, 118, 115, 107, 253, 32, 75, 114, 97, 115>>
\* "Brno-stred"
S_Brno == <<66, 114, 110, 111, 45, 115, 116, 345, 101, 100>>
\* "Nejaky Kras"
S_NejakyKras == <<78, 283, 106, 97, 107, 253, 32, 75, 114, 97, 115>>
\* "Oblast"
S_Oblast == <<79, 98, 108, 97, 115, 116>>
\* "Klasifikace"
S_Klasifikace == <<75, 108, 97, 115, 105, 102, 105, 107, 97, 99, 101>>
\* "Body"
S_Body == <<66, 111, 100, 121>>
\* "Styl"
S_Styl == <<83, 116, 121, 108>>
\* "Denicek"
S_DenicekTitle == <<68, 101, 110, 237, 269, 101, 107>>
\* "denik.php"
S_DenikPhp == <<100, 101, 110, 105, 107, 46, 112, 104, 112>>
\* "Lezec"
S_Lezec == <<76, 101, 122, 101, 99>>
\* "7A"
S_7A == <<55, 65>>
\* "flash"
S_Flash == <<102, 108, 97, 115, 104>>
\* "cesta.php?key=4821"
S_href4821 == <<99, 101, 115, 116, 97, 46, 112, 104, 112, 63, 107, 101, 121, 61, 52, 56, 50, 49>>
\* "cesta.php?key=77"
S_href77 == <<99, 101, 115, 116, 97, 46, 112, 104, 112, 63, 107, 101, 121, 61, 55, 55>>
\* "skaly.php"
S_hrefOther == <<115, 107, 97, 108, 121, 46, 112, 104, 112>>
\* "https://www.lezec.cz/cesta.php?key=4821"
S_url4821 == <<104, 116, 116, 112, 115, 58, 47, 47, 119, 119, 119, 46, 108, 101, 122, 101, 99, 46, 99, 122, 47, 99, 101, 115, 116, 97, 46, 112, 104, 112, 63, 107, 101, 121, 61, 52, 56, 50, 49>>
\* "https://www.lezec.cz/cesta.php?key=77"
S_url77 == <<104, 116, 116, 112, 115, 58, 47, 47, 119, 119, 119, 46, 108, 101, 122, 101, 99, 46, 99, 122, 47, 99, 101, 115, 116, 97, 46, 112, 104, 112, 63, 107, 101, 121, 61, 55, 55>>
\* "15.01.2024" ... "19.01.2024", "1.2.24"
S_date15 == <<49, 53, 46, 48, 49, 46, 50, 48, 50, 52>>
S_date16 == <<49, 54, 46, 48, 49, 46, 50, 48, 50, 52>>
S_date17 == <<49, 55, 46, 48, 49, 46, 50, 48, 50, 52>>
S_date18 == <<49, 56, 46, 48, 49, 46, 50, 48, 50, 52>>
S_dateBad == <<49, 46, 50, 46, 50, 52>>

\* the catalog of the end-to-end scenario: "Kniha" in the area "Holstejn"
CatalogHolstejn ==
    [areas |-> <<Area(1, S_Holstejn)>>,
     problems |-> <<BoulderProblem(1, S_Kniha, 1, <<>>)>>]

\* a catalog with a macro-region area and an area outside it
CatalogKras ==
    [areas |-> <<Area(1, S_MoravskyKras), Area(2, S_Sloup)>>,
     problems |-> << BoulderProblem(1, S_Hrana, 1, <<S_url4821>>),
                     BoulderProblem(2, S_Kniha, 1, <<>>),
                     BoulderProblem(3, S_Komin, 2, <<S_url77>>) >>]

Catalogs == {CatalogHolstejn, CatalogKras}

HeaderRow ==
    << Cell("th", S_Datum), Cell("th", S_Cesta), Cell("th", S_Oblast),
       Cell("th", S_Klasifikace), Cell("th", S_Body), Cell("th", S_Styl) >>

DataRow(date, name, href, location, style) ==
    << Cell("td", date), LinkCell(name, href), Cell("td", location),
       Cell("td", S_7A), Cell("td", <<>>), Cell("td", style) >>

\* the page of the end-to-end scenario: one data row
PageOne ==
    [text |-> S_DenicekTitle,
     tables |-> << <<HeaderRow, DataRow(S_date15, S_Kniha, S_href4821, S_Holstejn, <<>>)>> >>]

\* a diary with five rows: three of the region, one outside, one with a bad date
PageFive ==
    [text |-> S_DenicekTitle,
     tables |-> << << HeaderRow,
                      DataRow(S_date15, S_Kniha, S_href4821, S_Holstejn, S_Flash),
                      DataRow(S_date16, S_Kniha, S_href77, S_Holstejn, <<>>),
                      DataRow(S_date17, S_Kniha, S_hrefOther, S_NejakyKras, <<>>),
                      DataRow(S_date18, S_Komin, S_href77, S_Brno, <<>>),
                      DataRow(S_dateBad, S_Hrana, S_href4821, S_Sloup, <<>>) >> >>]

\* a diary whose rows are all outside the region
PageNoRegion ==
    [text |-> S_DenicekTitle,
     tables |-> << << HeaderRow,
                      DataRow(S_date15, S_Kniha, S_href4821, S_Brno, <<>>),
                      DataRow(S_date16, S_Kniha, S_href77, S_Brno, <<>>),
                      DataRow(S_date17, S_Kniha, S_hrefOther, S_Brno, <<>>),
                      DataRow(S_date18, S_Komin, S_href77, S_Brno, <<>>),
                      DataRow(S_dateBad, S_Hrana, S_href4821, S_Brno, <<>>) >> >>]

\* a profile page without a data table
PageEmpty == [text |-> S_DenicekTitle, tables |-> <<>>]

\* what the site answers for an unknown uid: without, or with, the word "denik"
PagePlain == [text |-> S_Lezec, tables |-> <<>>]
PageDenik == [text |-> S_DenikPhp, tables |-> <<>>]

\* a page with the table of a diary and without the title of one
PageTableNoTitle == [text |-> S_Lezec, tables |-> PageFive.tables]

\* the documents of the model, by name; the state holds the names
PageIds ==
    {"PageOne", "PageFive", "PageNoRegion", "PageEmpty", "PagePlain", "PageDenik",
     "PageTableNoTitle"}

Pages ==
    [id \in PageIds |->
        CASE id = "PageOne" -> PageOne
          [] id = "PageFive" -> PageFive
          [] id = "PageNoRegion" -> PageNoRegion
          [] id = "PageEmpty" -> PageEmpty
          [] id = "PagePlain" -> PagePlain
          [] id = "PageDenik" -> PageDenik
          [] id = "PageTableNoTitle" -> PageTableNoTitle]

\* "lu", "Lu", "xy"
S_lu == <<108, 117>>
S_Lu == <<76, 117>>
S_xy == <<120, 121>>

\* the "uid" query parameter: f"{identifier_hex}h"
UidParam(identifier_hex) == identifier_hex \o <<104>>

RemoteSite(identifier_hex, page, other) ==
    [uid |-> UidParam(identifier_hex), page |-> page, other |-> other]

\* the remote sites: the uid the profile is served under, the profile page,
\* and the page served for every other uid
Remotes ==
    { RemoteSite(_encode_to_lezec_hex(S_lu, FALSE, TRUE), "PageFive", "PagePlain"),
      RemoteSite(_encode_to_lezec_hex(S_lu, FALSE, TRUE), "PageOne", "PagePlain"),
      RemoteSite(_encode_to_lezec_hex(S_lu, TRUE, TRUE), "PageEmpty", "PageDenik"),
      RemoteSite(_encode_to_lezec_hex(S_Lu, FALSE, FALSE), "PageNoRegion", "PagePlain"),
      RemoteSite(_encode_to_lezec_hex(S_xy, FALSE, FALSE), "PageFive", "PageDenik") }

Usernames == {S_Lu}

Users == 1..NumUsers
Runs == 1..NumRuns

----------------------------------------------------------------------------
(* Remote Page Fetcher *)

\* None, for a soup
NoSoup == "None"

\* what requests.get(...) and raise_for_status() give for one uid: the page
\* served, or "RequestException" when one is raised
Responses(site, uid) ==
    {"RequestException", IF uid = site.uid THEN site.page ELSE site.other}

\* mutant: a page is a valid diary when ticks can be extracted from it
CheckDiaryPage_TicksOnly(response) ==
    [soup |-> response,
     found |-> _extract_ticks_from_diary(Pages[response]) # <<>>,
     raised |-> FALSE,
     extracted |-> TRUE]

\* the (soup, found) pair for a response that arrived
CheckDiaryPage(response) ==
    LET soup == Pages[response]
        page_text == Lower(GetText(soup))
        marked == Contains(page_text, S_denicek) \/ Contains(page_text, S_denik)
    IN  [soup |-> response,
         found |-> /\ marked
                   /\ (\/ _extract_ticks_from_diary(soup) # <<>>
                       \/ Contains(page_text, S_denicek)),
         raised |-> FALSE,
         extracted |-> marked]

\* mutant: requests.RequestException is not caught
_try_fetch_diary_NoExcept(response) ==
    IF response = "RequestException"
    THEN [soup |-> NoSoup, found |-> FALSE, raised |-> TRUE, extracted |-> FALSE]
    ELSE CheckDiaryPage(response)

\* the (soup, found) pair of _try_fetch_diary for one response; `raised` tells
\* whether an exception leaves the function, `extracted` whether
\* _extract_ticks_from_diary was called
_try_fetch_diary(response) ==
    IF response = "RequestException"
    THEN [soup |-> NoSoup, found |-> FALSE, raised |-> FALSE, extracted |-> FALSE]
    ELSE CheckDiaryPage(response)

\* the request of one strategy: the "uid" parameter sent
RequestUid(strategy) ==
    UidParam(_encode_to_lezec_hex(strategy.identifier, strategy.uppercase_hex,
                                  strategy.use_w1250))

\* mutant: the strategy tried is not remembered
tried_identifiers_add_Forgets(tried_identifiers, strategy_key) == tried_identifiers

\* tried_identifiers.add(strategy_key)
tried_identifiers_add(tried_identifiers, strategy_key) ==
    tried_identifiers \cup {strategy_key}

RECURSIVE FindDiaryFrom(_, _, _, _)
\* the values the loop of _find_diary can return from iteration i on, over all
\* outcomes of the fetches: [soup, raised, extracted]
FindDiaryFrom(site, strategies, i, tried_identifiers) ==
    IF i > Len(strategies)
    THEN {[soup |-> NoSoup, raised |-> FALSE, extracted |-> FALSE]}
    ELSE IF strategies[i] \in tried_identifiers
    THEN FindDiaryFrom(site, strategies, i + 1, tried_identifiers)
    ELSE LET rest == FindDiaryFrom(site, strategies, i + 1,
                                   tried_identifiers_add(tried_identifiers,
                                                         strategies[i]))
         IN  UNION { LET fetched == _try_fetch_diary(response)
                     IN  IF fetched.raised
                         THEN {[soup |-> NoSoup, raised |-> TRUE, extracted |-> FALSE]}
                         ELSE IF fetched.found
                         THEN {[soup |-> fetched.soup, raised |-> FALSE,
                                extracted |-> TRUE]}
                         ELSE { [d EXCEPT !.extracted = d.extracted \/ fetched.extracted] :
                                d \in rest }
                   : response \in Responses(site, RequestUid(strategies[i])) }

\* the values _find_diary(lezec_username) can return
_find_diary(site, lezec_username) ==
    FindDiaryFrom(site, _generate_username_strategies(lezec_username), 1, {})

----------------------------------------------------------------------------
(* Run results *)

ZeroStats == [matched |-> 0, created |-> 0, existing |-> 0, not_found |-> 0, errors |-> 0]

_create_error_response(message) ==
    [success |-> FALSE, message |-> message, matched |-> 0, created |-> 0,
     existing |-> 0, not_found |-> 0, errors |-> 0]

\* mutant: the two messages are exchanged
_handle_empty_diary_response_Swapped(soup) ==
    LET page_text == IF soup # NoSoup THEN Lower(GetText(Pages[soup])) ELSE <<>>
    IN  IF Contains(page_text, S_denicek) \/ Contains(page_text, S_denik)
        THEN _create_error_response("Could not find diary page")
        ELSE _create_error_response("No boulder ticks found in diary")

_handle_empty_diary_response(soup) ==
    LET page_text == IF soup # NoSoup THEN Lower(GetText(Pages[soup])) ELSE <<>>
    IN  IF Contains(page_text, S_denicek) \/ Contains(page_text, S_denik)
        THEN _create_error_response("No boulder ticks found in diary")
        ELSE _create_error_response("Could not find diary page")

\* the dict import_lezec_diary returns after _process_ticks
SuccessResponse(stats) ==
    [success |-> TRUE, message |-> "Import completed", matched |-> stats.matched,
     created |-> stats.created, existing |-> stats.existing,
     not_found |-> stats.not_found, errors |-> stats.errors]

----------------------------------------------------------------------------
(* The importer: import_lezec_diary as run by concurrent requests *)

\* the local state of a request that has not called import_lezec_diary yet;
\* `attempts` logs the calls of _try_fetch_diary of the stepwise _find_diary
\* (index of the strategy, uid sent, response, soup returned, outcome) and `sleeps` counts the calls of
\* time.sleep, of which _find_diary and _try_fetch_diary make none
IdleRun ==
    [pc |-> "idle", user |-> 0, username |-> <<>>, i |-> 0, tried |-> {},
     soup |-> NoSoup, todo |-> <<>>, idx |-> 0, stats |-> ZeroStats,
     problem |-> <<>>, result |-> <<>>,
     last |-> "none", extracted |-> FALSE, matchCalls |-> 0, createCalls |-> 0,
     prevs |-> {}, clean |-> TRUE,
     attempts |-> <<>>, sleeps |-> 0]

\* mutant: the missing diary is reported by _handle_empty_diary_response
DiaryNotFound_AsEmpty(run) ==
    [run EXCEPT !.pc = "done", !.result = <<_handle_empty_diary_response(NoSoup)>>]

\* import_lezec_diary when _find_diary returned None
DiaryNotFound(run) ==
    [run EXCEPT !.pc = "done",
                !.result = <<_create_error_response("Could not find diary")>>]

\* mutant: the loop of _find_diary does not return when a fetch is valid
ImportFoundDiary_KeepsFetching(run, soup) ==
    IF run.i <= Len(_generate_username_strategies(run.username))
    THEN [run EXCEPT !.soup = soup]
    ELSE DiaryNotFound(run)

\* import_lezec_diary from the extraction on, for the soup _find_diary returned
ImportFoundDiary(run, soup) ==
    LET tick_list == _extract_ticks_from_diary(Pages[soup])
        moravsky_kras_ticks == _filter_moravsky_kras_ticks(tick_list)
        found == [run EXCEPT !.soup = soup, !.extracted = TRUE]
    IN  IF tick_list = <<>>
        THEN [found EXCEPT !.pc = "done",
                           !.result = <<_handle_empty_diary_response(soup)>>]
        ELSE IF moravsky_kras_ticks = <<>>
        THEN [found EXCEPT !.pc = "done",
                           !.result = <<_create_error_response(
                                          "No ticks found for Moravsky Kras location")>>]
        ELSE [found EXCEPT !.pc = "process", !.todo = moravsky_kras_ticks,
                           !.idx = 1, !.stats = ZeroStats]

\* mutant: the loop of _process_ticks takes the same entry again
NextTick_SameEntry(run) == [run EXCEPT !.pc = "process", !.problem = <<>>]

\* the end of one iteration of the loop of _process_ticks: the next entry, or
\* the return of _process_ticks and of import_lezec_diary
NextTick(run) ==
    IF run.idx < Len(run.todo)
    THEN [run EXCEPT !.pc = "process", !.idx = run.idx + 1, !.problem = <<>>]
    ELSE [run EXCEPT !.pc = "done", !.idx = run.idx + 1, !.problem = <<>>,
                     !.result = <<SuccessResponse(run.stats)>>]

\* mutant: the else branch of the _create_tick test counts nothing
Bump_NoErrors(run, counter) ==
    IF counter = "errors" THEN run
    ELSE [run EXCEPT !.stats[counter] = run.stats[counter] + 1]

\* stats[counter] += 1
Bump(run, counter) == [run EXCEPT !.stats[counter] = run.stats[counter] + 1]

\* the runs that finished before, for the same user and display name, with no
\* row inserted by another run since they started
EarlierRuns(user, lezec_username) ==
    {q \in Runs : /\ runs[q].pc = "done"
                  /\ runs[q].clean
                  /\ runs[q].user = user
                  /\ runs[q].username = lezec_username}

\* requests and users are interchangeable: requests start in the order of
\* their numbers, and users are numbered in the order of their first request
StartsInOrder(r, user) ==
    /\ runs[r].pc = "idle"
    /\ \A q \in 1..(r - 1) : runs[q].pc # "idle"
    /\ \A u \in 1..(user - 1) : \E q \in Runs : runs[q].user = u

\* the state of a request that is in import_lezec_diary
StartedRun(user, lezec_username) ==
    [IdleRun EXCEPT !.pc = "find", !.user = user, !.username = lezec_username,
                    !.i = 1, !.prevs = EarlierRuns(user, lezec_username)]

Init ==
    /\ catalog \in Catalogs
    /\ remote \in Remotes
    /\ ticks = {}
    /\ nextId = 1
    /\ runs = [r \in Runs |-> IdleRun]
    /\ fn = <<>>

\* a request calls import_lezec_diary(user, lezec_username): _find_diary with
\* all its fetches, the extraction and the locale filter
StartImport(r, user, lezec_username) ==
    /\ StartsInOrder(r, user)
    /\ \E diary \in _find_diary(remote, lezec_username) :
         LET started == [StartedRun(user, lezec_username) EXCEPT
                             !.extracted = diary.extracted]
         IN  runs' = [runs EXCEPT ![r] =
                        IF diary.raised THEN [started EXCEPT !.pc = "raised"]
                        ELSE IF diary.soup = NoSoup THEN DiaryNotFound(started)
                        ELSE ImportFoundDiary(started, diary.soup)]
    /\ UNCHANGED <<catalog, remote, ticks, nextId, fn>>

\* one iteration of the loop of _process_ticks up to the existence check
ProcessTick(r) ==
    LET run == runs[r]
        tick_data == run.todo[run.idx]
        problem == _find_matching_boulder(catalog, tick_data)
        called == [run EXCEPT !.matchCalls = run.matchCalls + 1]
    IN  /\ run.pc = "process"
        /\ runs' = [runs EXCEPT ![r] =
                      IF problem = <<>>
                      THEN NextTick(Bump(called, "not_found"))
                      ELSE IF TickExists(ticks, run.user, problem[1].id)
                      THEN NextTick(Bump(Bump(called, "matched"), "existing"))
                      ELSE [Bump(called, "matched") EXCEPT !.pc = "create",
                                                           !.problem = problem]]
        /\ UNCHANGED <<catalog, remote, ticks, nextId, fn>>

\* the rest of the iteration: _create_tick and the counter it decides
CreateTick(r) ==
    LET run == runs[r]
    IN  /\ run.pc = "create"
        /\ \E dbOk \in BOOLEAN :
             LET res == _create_tick(ticks, nextId, run.user, run.problem[1],
                                     run.todo[run.idx], dbOk)
                 called == [run EXCEPT !.createCalls = run.createCalls + 1]
             IN  /\ ticks' = res.table
                 /\ nextId' = IF res.table # ticks THEN nextId + 1 ELSE nextId
                 /\ runs' = [q \in Runs |->
                               IF q = r
                               THEN IF res.raised THEN [called EXCEPT !.pc = "raised"]
                                    ELSE IF res.ok THEN NextTick(Bump(called, "created"))
                                    ELSE NextTick(Bump(called, "errors"))
                               ELSE IF res.table # ticks
                                    THEN [runs[q] EXCEPT !.clean = FALSE]
                                    ELSE runs[q]]
        /\ UNCHANGED <<catalog, remote, fn>>

Next ==
    \/ \E r \in Runs, user \in Users, name \in Usernames : StartImport(r, user, name)
    \/ \E r \in Runs : ProcessTick(r)
    \/ \E r \in Runs : CreateTick(r)

Spec == Init /\ [][Next]_vars

----------------------------------------------------------------------------
(* One request, with _find_diary taken one fetch at a time *)

\* the request enters import_lezec_diary and _find_diary
BeginImport(r, user, lezec_username) ==
    /\ r = 1
    /\ StartsInOrder(r, user)
    /\ runs' = [runs EXCEPT ![r] = StartedRun(user, lezec_username)]
    /\ UNCHANGED <<catalog, remote, ticks, nextId, fn>>

\* one iteration of the loop of _find_diary whose strategy was tried before
SkipTried(r) ==
    LET run == runs[r]
        strategies == _generate_username_strategies(run.username)
    IN  /\ run.pc = "find"
        /\ strategies[run.i] \in run.tried
        /\ runs' = [runs EXCEPT ![r] =
                      IF run.i < Len(strategies)
                      THEN [run EXCEPT !.i = run.i + 1]
                      ELSE DiaryNotFound([run EXCEPT !.i = run.i + 1])]
        /\ UNCHANGED <<catalog, remote, ticks, nextId, fn>>

\* one iteration of the loop of _find_diary that fetches; when the diary is
\* found, the extraction and the locale filter of import_lezec_diary
TryFetch(r) ==
    LET run == runs[r]
        strategies == _generate_username_strategies(run.username)
        strategy == strategies[run.i]
    IN  /\ run.pc = "find"
        /\ strategy \notin run.tried
        /\ \E response \in Responses(remote, RequestUid(strategy)) :
             LET fetched == _try_fetch_diary(response)
                 outcome == IF response = "RequestException" THEN "error"
                            ELSE IF fetched.found THEN "valid"
                            ELSE "invalid"
                 tried == [run EXCEPT !.tried = tried_identifiers_add(run.tried, strategy),
                                      !.i = run.i + 1,
                                      !.attempts = Append(run.attempts,
                                                          [k |-> run.i,
                                                           uid |-> RequestUid(strategy),
                                                           response |-> response,
                                                           soup |-> fetched.soup,
                                                           outcome |-> outcome]),
                                      !.extracted = run.extracted \/ fetched.extracted,
                                      !.last = outcome]
             IN  runs' = [runs EXCEPT ![r] =
                            IF fetched.raised THEN [tried EXCEPT !.pc = "raised"]
                            ELSE IF fetched.found THEN ImportFoundDiary(tried, fetched.soup)
                            ELSE IF run.i < Len(strategies) THEN tried
                            ELSE DiaryNotFound(tried)]
        /\ UNCHANGED <<catalog, remote, ticks, nextId, fn>>

\* "LU", "l", and "l" followed by an emoji outside windows-1250
S_LU == <<76, 85>>
S_l == <<108>>
S_lEmoji == <<108, 128512>>

\* the display names of the single request: mixed case, already lowercase,
\* already upper-case, a single character, not encodable in windows-1250
FetchUsernames == Usernames \cup {S_lu, S_LU, S_l, S_lEmoji}

FetchNext ==
    \/ \E user \in Users, name \in FetchUsernames : BeginImport(1, user, name)
    \/ SkipTried(1)
    \/ TryFetch(1)
    \/ ProcessTick(1)
    \/ CreateTick(1)

\* the remote sites of the single request: those of the concurrent requests,
\* and one that serves a diary table under a page without the diary title
FetchRemotes ==
    Remotes \cup
        {RemoteSite(_encode_to_lezec_hex(S_lu, FALSE, TRUE), "PageTableNoTitle", "PagePlain")}

FetchInit ==
    /\ catalog \in Catalogs
    /\ remote \in FetchRemotes
    /\ ticks = {}
    /\ nextId = 1
    /\ runs = [r \in Runs |-> IdleRun]
    /\ fn = <<>>

FetchSpec == FetchInit /\ [][FetchNext]_vars

\* TryFetch(1) can be taken: the request is in the loop of _find_diary at a
\* strategy it has not tried (the site always answers or fails, and the step
\* moves the loop on)
TryFetchEnabled ==
    /\ runs[1].pc = "find"
    /\ _generate_username_strategies(runs[1].username)[runs[1].i] \notin runs[1].tried

\* the request, once in import_lezec_diary, keeps running: requests.get
\* returns or raises within its timeout of 30 seconds and the database calls
\* return, so every step of the function that can be taken is taken. The
\* last conjunct is WF_vars(TryFetch(1)) with its enabling condition
\* written out.
FetchLiveSpec ==
    /\ FetchInit
    /\ [][FetchNext]_vars
    /\ WF_vars(SkipTried(1))
    /\ WF_vars(ProcessTick(1))
    /\ WF_vars(CreateTick(1))
    /\ ([]<>(~TryFetchEnabled) \/ []<><<TryFetch(1)>>_vars)

----------------------------------------------------------------------------
(* The encoder applied to bounded display names *)

\* 'a', 'B', s with caron, Z with caron, an emoji outside windows-1250
Alphabet == {97, 66, 353, 381, 128512}

\* the display names of at most MaxNameLen characters
DisplayNames == UNION {[1..n -> Alphabet] : n \in 0..MaxNameLen}

\* the variables of the importer, at rest
ImporterAtRest ==
    /\ catalog = CatalogKras
    /\ remote = RemoteSite(<<>>, "PageEmpty", "PagePlain")
    /\ ticks = {}
    /\ nextId = 1
    /\ runs = [r \in Runs |-> IdleRun]

EncoderInit ==
    /\ ImporterAtRest
    /\ \E name \in DisplayNames :
         fn = [op |-> "encode", name |-> name, strategies |-> <<>>, hexes |-> <<>>,
               done |-> FALSE]

\* _generate_username_strategies(name), and _encode_to_lezec_hex for each
\* strategy as _try_fetch_diary calls it
Encode ==
    /\ fn.op = "encode"
    /\ ~fn.done
    /\ LET strategies == _generate_username_strategies(fn.name)
       IN  fn' = [fn EXCEPT !.strategies = strategies,
                            !.hexes = [k \in 1..Len(strategies) |->
                                         _encode_to_lezec_hex(strategies[k].identifier,
                                                              strategies[k].uppercase_hex,
                                                              strategies[k].use_w1250)],
                            !.done = TRUE]
    /\ UNCHANGED <<catalog, remote, ticks, nextId, runs>>

EncoderNext == Encode

EncoderSpec == EncoderInit /\ [][EncoderNext]_vars

----------------------------------------------------------------------------
(* The matcher applied to bounded entries and catalogs *)

\* "KNIHA", "Kni", "Komin", "4821", "77", "48"
S_KNIHA == <<75, 78, 73, 72, 65>>
S_Kni == <<75, 110, 105>>
S_KominPlain == <<75, 111, 109, 105, 110>>
S_4821 == <<52, 56, 50, 49>>
S_77 == <<55, 55>>
S_48 == <<52, 56>>

\* a catalog without any macro-region area
CatalogSloup ==
    [areas |-> <<Area(1, S_Sloup)>>,
     problems |-> << BoulderProblem(1, S_Kniha, 1, <<>>),
                     BoulderProblem(2, S_Komin, 1, <<S_url77>>) >>]

\* a catalog with two macro-region areas and the same name in both, the
\* row of the second area coming first in the BoulderProblem table
CatalogTwoKras ==
    [areas |-> <<Area(1, S_NejakyKras), Area(2, S_MoravskyKras), Area(3, S_Sloup)>>,
     problems |-> << BoulderProblem(1, S_Kniha, 2, <<>>),
                     BoulderProblem(2, S_Kniha, 1, <<>>),
                     BoulderProblem(3, S_Kniha, 3, <<S_url4821>>),
                     BoulderProblem(4, S_Komin, 2, <<>>),
                     BoulderProblem(5, S_Hrana, 3, <<>>) >>]

\* "kni"
S_kni == <<107, 110, 105>>

MatcherCatalogs == Catalogs \cup {CatalogSloup, CatalogTwoKras}

MatcherEntries ==
    { [name |-> name, lezec_id |-> id, grade |-> S_7A,
       date |-> [year |-> 2024, month |-> 1, day |-> 15], style |-> <<>>,
       location |-> location] :
      name \in {S_Kniha, S_KNIHA, S_Kni, S_kni, S_Hrana, S_Komin, S_KominPlain},
      id \in {<<>>, S_4821, S_77, S_48},
      location \in {S_Holstejn, S_Sloup, S_NejakyKras} }

MatcherInit ==
    /\ catalog \in MatcherCatalogs
    /\ remote = RemoteSite(<<>>, "PageEmpty", "PagePlain")
    /\ ticks = {}
    /\ nextId = 1
    /\ runs = [r \in Runs |-> IdleRun]
    /\ \E tick_data \in MatcherEntries :
         fn = [op |-> "match", tick_data |-> tick_data, problem |-> <<>>,
               tier |-> "none", done |-> FALSE]

\* _find_matching_boulder(tick_data)
Match ==
    /\ fn.op = "match"
    /\ ~fn.done
    /\ fn' = [fn EXCEPT !.problem = _find_matching_boulder(catalog, fn.tick_data),
                        !.tier = MatchTier(catalog, fn.tick_data),
                        !.done = TRUE]
    /\ UNCHANGED <<catalog, remote, ticks, nextId, runs>>

MatcherNext == Match

MatcherSpec == MatcherInit /\ [][MatcherNext]_vars

----------------------------------------------------------------------------
(* Properties of the matcher *)

\* the records tier 1 scans for an entry of the given location: those of the
\* areas whose name contains "Moravsky", "Kras" or the location, or every
\* record when there is no such area
ScannedByTier1(cat, location) ==
    LET Candidate(a) == \/ IContains(a.name, S_Moravsky)
                        \/ IContains(a.name, S_Kras)
                        \/ (location # <<>> /\ IContains(a.name, location))
        ids == {cat.areas[i].id : i \in {j \in 1..Len(cat.areas) : Candidate(cat.areas[j])}}
    IN  IF ids = {} THEN {k \in 1..Len(cat.problems) : TRUE}
        ELSE {k \in 1..Len(cat.problems) : cat.problems[k].area \in ids}

\* the record has an external link whose "key" query value is the id
LinkedTo(record, id) ==
    \E k \in 1..Len(record.external_links) : RouteId(record.external_links[k]) = id

\* the record's normalized name is the normalized name of the entry
NamedAs(record, tick_data) ==
    record.name_normalized = normalize_problem_name(tick_data.name)

\* C5 as stated: the Matcher returns record A whenever the entry's external id
\* is the id of a link of A and the entry's name, normalized, is the name of a
\* different record B.
C5_IdMatchAlwaysReturned ==
    (fn.op = "match" /\ fn.done) =>
        \A a, b \in 1..Len(catalog.problems) :
            ( /\ a # b
              /\ fn.tick_data.lezec_id # <<>>
              /\ LinkedTo(catalog.problems[a], fn.tick_data.lezec_id)
              /\ NamedAs(catalog.problems[b], fn.tick_data) )
            => fn.problem = <<catalog.problems[a]>>

\* C5, amended: when tier 1 finds a record, that is when some record that
\* tier 1 scans has a link containing "key=<id>", the Matcher returns the first
\* such record in store order, whichever record matches the entry's name.
C5_TierOneWins ==
    (fn.op = "match" /\ fn.done) =>
        \A a \in ScannedByTier1(catalog, fn.tick_data.location) :
            ( /\ fn.tick_data.lezec_id # <<>>
              /\ HasLinkWithKey(catalog.problems[a], fn.tick_data.lezec_id)
              /\ \A k \in ScannedByTier1(catalog, fn.tick_data.location) :
                     k < a => ~HasLinkWithKey(catalog.problems[k], fn.tick_data.lezec_id) )
            => fn.problem = <<catalog.problems[a]>>

\* an entry whose id is linked from one record and whose name is that of
\* another record of a macro-region area has been matched to the linked record
C5_Witness ==
    /\ fn.op = "match"
    /\ fn.done
    /\ \E a, b \in 1..Len(catalog.problems) :
         /\ a # b
         /\ LinkedTo(catalog.problems[a], fn.tick_data.lezec_id)
         /\ NamedAs(catalog.problems[b], fn.tick_data)
         /\ _find_boulder_by_name(catalog, fn.tick_data.name) = <<catalog.problems[b]>>
         /\ fn.problem = <<catalog.problems[a]>>

----------------------------------------------------------------------------
(* Properties of the encoder *)

\* "1611f600": the code points 0x161 and 0x1f600 in lowercase hex
S_hex_161_1f600 == <<49, 54, 49, 49, 102, 54, 48, 48>>

\* C10: for every display name the strategies are generated and encoded
\* without an exception, and the list contains the name in its original case
\* encoded as Unicode code points in lowercase hex.
C10_EncoderTotal ==
    (fn.op = "encode" /\ fn.done) =>
        /\ \A k \in 1..Len(fn.hexes) : fn.hexes[k] # Raised
        /\ \E k \in 1..Len(fn.strategies) :
             /\ fn.strategies[k] = Strategy(fn.name, FALSE, FALSE)
             /\ fn.hexes[k] = Concat([i \in 1..Len(fn.name) |->
                                        Format02x(fn.name[i], FALSE)])

\* a name with an emoji has been encoded: its Unicode candidate is "1611f600"
C10_Witness ==
    /\ fn.op = "encode"
    /\ fn.done
    /\ fn.name = <<353, 128512>>
    /\ EncodeWindows1250(fn.name) = Raised
    /\ \E k \in 1..Len(fn.strategies) :
         /\ fn.strategies[k] = Strategy(fn.name, FALSE, FALSE)
         /\ fn.hexes[k] = S_hex_161_1f600

----------------------------------------------------------------------------
(* Properties of the importer under concurrent requests (Spec) *)

Stats(result) ==
    [matched |-> result.matched, created |-> result.created,
     existing |-> result.existing, not_found |-> result.not_found,
     errors |-> result.errors]

\* run r is a rerun of run q: q finished before r started, for the same user
\* and display name, both got the same page, and no other run inserted a row
\* from the start of q to the end of r
IsRerunOf(r, q) ==
    /\ runs[r].pc = "done"
    /\ runs[r].clean
    /\ q \in runs[r].prevs
    /\ runs[q].soup = runs[r].soup

C2_OneTickPerUserProblem ==
    \A t1, t2 \in ticks :
        (t1.user = t2.user /\ t1.problem = t2.problem) => t1 = t2

\* a run is about to create a row that another run created after this run's
\* existence check
C2_Witness ==
    \E r \in Runs :
        /\ runs[r].pc = "create"
        /\ TickExists(ticks, runs[r].user, runs[r].problem[1].id)

\* run r takes its _create_tick step
CreateStepOf(r) ==
    /\ runs[r].pc = "create"
    /\ runs'[r].createCalls = runs[r].createCalls + 1

\* C3 as stated: a create rejected by the uniqueness constraint counts the
\* entry as existing, not as errors.
C3_ConflictCountsAsExisting ==
    [][\A r \in Runs :
         (CreateStepOf(r) /\ TickExists(ticks, runs[r].user, runs[r].problem[1].id)) =>
             /\ runs'[r].stats.existing = runs[r].stats.existing + 1
             /\ runs'[r].stats.errors = runs[r].stats.errors]_vars

\* C4 as stated: the end-to-end scenario, run by the only request on an empty
\* Tick table, succeeds with one row created and matched = created = 1.
C4_EndToEndScenario ==
    \A r \in Runs :
        ( /\ runs[r].pc = "done"
          /\ runs[r].soup = "PageOne"
          /\ catalog = CatalogHolstejn
          /\ \A q \in Runs \ {r} : runs[q].pc = "idle" )
        => /\ runs[r].result[1].success
           /\ Stats(runs[r].result[1]) =
                 [matched |-> 1, created |-> 1, existing |-> 0, not_found |-> 0,
                  errors |-> 0]
           /\ \E t \in ticks :
                 /\ ticks = {t}
                 /\ t.user = runs[r].user
                 /\ t.problem = 1
                 /\ t.date = [year |-> 2024, month |-> 1, day |-> 15]

\* C6: a failed create adds one to errors and nothing else, no exception
\* leaves the run, and the run goes on with the next entry; at its end every
\* entry has been given to the Matcher.
C6_CreateFailureAbsorbed ==
    [][\A r \in Runs :
         (CreateStepOf(r) /\ ticks' = ticks) =>
             /\ runs'[r].pc # "raised"
             /\ runs'[r].stats = [runs[r].stats EXCEPT !.errors = runs[r].stats.errors + 1]
             /\ runs'[r].idx = runs[r].idx + 1
             /\ IF runs[r].idx < Len(runs[r].todo)
                THEN runs'[r].pc = "process"
                ELSE /\ runs'[r].pc = "done"
                     /\ runs'[r].result[1].success
                     /\ runs'[r].matchCalls = Len(runs[r].todo)]_vars

\* after a failed create the run is at a later entry
C6_Witness ==
    \E r \in Runs :
        /\ runs[r].pc = "process"
        /\ runs[r].stats.errors >= 1
        /\ ~\E t \in ticks : t.user = runs[r].user

----------------------------------------------------------------------------
(* Properties of one request, fetch by fetch (FetchSpec) *)

HasMarker(page) ==
    \/ Contains(Lower(GetText(Pages[page])), S_denicek)
    \/ Contains(Lower(GetText(Pages[page])), S_denik)

\* every strategy of the run has been tried without finding a diary
AllCandidatesFailed(r) ==
    /\ runs[r].pc = "done"
    /\ runs[r].soup = NoSoup
    /\ runs[r].i = Len(_generate_username_strategies(runs[r].username)) + 1

\* C7 as stated: when every candidate fails, the run returns the "diary not
\* found" failure with all counters 0, and extraction, matching and creation
\* are never invoked.
C7_NotFoundInvokesNothing ==
    \A r \in Runs :
        AllCandidatesFailed(r) =>
            /\ runs[r].result = <<_create_error_response("Could not find diary")>>
            /\ ~runs[r].extracted
            /\ runs[r].matchCalls = 0
            /\ runs[r].createCalls = 0

\* C7, amended: when every candidate fails, the run returns the "diary not
\* found" failure with all counters 0, and matching and creation are never
\* invoked; extraction is invoked only by the Fetcher's validity check, on a
\* fetched page whose text contains a title marker.
C7_NotFoundFailure ==
    \A r \in Runs :
        AllCandidatesFailed(r) =>
            /\ runs[r].result = <<_create_error_response("Could not find diary")>>
            /\ runs[r].matchCalls = 0
            /\ runs[r].createCalls = 0
            /\ runs[r].extracted => HasMarker(remote.other) \/ HasMarker(remote.page)

\* every candidate has failed, and the validity check of a page with the word
\* "denik" has run the extraction
C7_Witness ==
    \E r \in Runs :
        /\ AllCandidatesFailed(r)
        /\ runs[r].extracted
        /\ runs[r].result[1].success = FALSE

\* C8: once a valid profile page is found, zero extracted entries give the
\* "empty or private diary" failure and entries that all fail the Locale
\* Filter give the "no entries for region" failure, with all counters 0 and
\* without any call of the Matcher.
C8_EmptyAndNoRegionFailures ==
    \A r \in Runs :
        (runs[r].pc = "done" /\ runs[r].soup # NoSoup) =>
            LET tick_list == _extract_ticks_from_diary(Pages[runs[r].soup])
            IN  /\ tick_list = <<>> =>
                    /\ runs[r].result =
                         <<_create_error_response("No boulder ticks found in diary")>>
                    /\ runs[r].matchCalls = 0
                /\ (tick_list # <<>> /\ _filter_moravsky_kras_ticks(tick_list) = <<>>) =>
                    /\ runs[r].result =
                         <<_create_error_response("No ticks found for Moravsky Kras location")>>
                    /\ runs[r].matchCalls = 0

\* a valid profile page whose entries are all outside the region was found
C8_Witness ==
    \E r \in Runs :
        /\ runs[r].pc = "done"
        /\ runs[r].soup = "PageNoRegion"
        /\ Len(_extract_ticks_from_diary(Pages[runs[r].soup])) = 4
        /\ runs[r].result[1].message = "No ticks found for Moravsky Kras location"

\* a valid profile page without entries was found
C8_WitnessEmpty ==
    \E r \in Runs :
        /\ runs[r].pc = "done"
        /\ runs[r].soup = "PageEmpty"
        /\ runs[r].result[1].message = "No boulder ticks found in diary"

\* run r takes a fetch step whose request raises requests.RequestException
TransportErrorStepOf(r) ==
    /\ runs[r].pc = "find"
    /\ runs'[r].tried # runs[r].tried
    /\ runs'[r].last = "error"

\* C9: a transport error of one fetch does not leave the Fetcher as an
\* exception: no diary is found by that attempt, and the run goes on with the
\* next candidate, or returns the "diary not found" failure after the last.
C9_TransportErrorAbsorbed ==
    [][\A r \in Runs :
         TransportErrorStepOf(r) =>
             /\ runs'[r].pc # "raised"
             /\ runs'[r].soup = NoSoup
             /\ runs'[r].i = runs[r].i + 1
             /\ IF runs[r].i < Len(_generate_username_strategies(runs[r].username))
                THEN runs'[r].pc = "find"
                ELSE /\ runs'[r].pc = "done"
                     /\ runs'[r].result =
                          <<_create_error_response("Could not find diary")>>]_vars

\* after a transport error the run is at the next candidate
C9_Witness ==
    \E r \in Runs :
        /\ runs[r].last = "error"
        /\ runs[r].pc = "find"
        /\ runs[r].soup = NoSoup
        /\ runs[r].i \in 2..Len(_generate_username_strategies(runs[r].username))

----------------------------------------------------------------------------
(* The text normalizer applied to bounded names and to their variants in    *)
(* letter case, diacritics and whitespace                                   *)

\* 'C', c with caron, space, tab, the combining caron
NormalizerAlphabet == {67, 269, 32, 9, 780}

\* "Ceske Budejovice" with its diacritics, "CESKE BUDEJOVICE", "ceske budejovice"
S_CeskeBudejovice == <<268, 101, 115, 107, 233, 32, 66, 117, 100, 283, 106, 111, 118, 105, 99, 101>>
S_CESKE_BUDEJOVICE == <<67, 69, 83, 75, 69, 32, 66, 85, 68, 69, 74, 79, 86, 73, 67, 69>>
S_ceske_budejovice == <<99, 101, 115, 107, 101, 32, 98, 117, 100, 101, 106, 111, 118, 105, 99, 101>>

\* the names of at most MaxTextLen characters; <<>> is the empty or absent name
NormalizerNames == UNION {[1..n -> NormalizerAlphabet] : n \in 0..MaxTextLen}

\* the letters with a diacritic that windows-1250 has for Czech
CzechAccented ==
    {193, 225, 201, 233, 205, 237, 218, 250, 221, 253, 268, 269, 282, 283,
     344, 345, 352, 353, 366, 367, 381, 382}

IsLetter(c) == LowerChar(c) # c \/ UpperChar(c) # c

\* s with x inserted after its first i characters
InsertAt(s, i, x) == SubSeq(s, 1, i) \o <<x>> \o SubSeq(s, i + 1, Len(s))

\* s without its character i
RemoveAt(s, i) == SubSeq(s, 1, i - 1) \o SubSeq(s, i + 1, Len(s))

NormalizerInit ==
    /\ ImporterAtRest
    /\ \E pair \in {<<name, name>> : name \in NormalizerNames}
                   \cup {<<S_CeskeBudejovice, S_CESKE_BUDEJOVICE>>} :
         fn = [op |-> "normalize", name |-> pair[1], variant |-> pair[2],
               result |-> <<>>, variant_result |-> <<>>,
               again |-> <<>>, variant_again |-> <<>>, done |-> FALSE]

\* the variant changes the case of one letter
SwapCase(i) ==
    LET c == fn.variant[i]
    IN  /\ fn.op = "normalize" /\ ~fn.done
        /\ Len(fn.variant) <= MaxTextLen
        /\ i <= Len(fn.variant)
        /\ IsLetter(c)
        /\ fn' = [fn EXCEPT !.variant[i] =
                     IF LowerChar(c) # c THEN LowerChar(c) ELSE UpperChar(c)]
        /\ UNCHANGED <<catalog, remote, ticks, nextId, runs>>

\* the variant puts a diacritic on one letter, or takes it off
SwapDiacritic(i) ==
    LET c == fn.variant[i]
    IN  /\ fn.op = "normalize" /\ ~fn.done
        /\ Len(fn.variant) <= MaxTextLen
        /\ i <= Len(fn.variant)
        /\ IsLetter(c)
        /\ \E d \in CzechAccented \cup {BaseChar(c)} :
             /\ d # c
             /\ BaseChar(d) = BaseChar(c)
             /\ fn' = [fn EXCEPT !.variant[i] = d]
        /\ UNCHANGED <<catalog, remote, ticks, nextId, runs>>

\* the variant puts a combining mark after one letter
AddMark(i) ==
    /\ fn.op = "normalize" /\ ~fn.done
    /\ Len(fn.variant) < MaxTextLen
    /\ i <= Len(fn.variant)
    /\ IsLetter(fn.variant[i])
    /\ fn' = [fn EXCEPT !.variant = InsertAt(fn.variant, i, 780)]
    /\ UNCHANGED <<catalog, remote, ticks, nextId, runs>>

\* the variant drops the combining mark that follows a letter
DropMark(i) ==
    /\ fn.op = "normalize" /\ ~fn.done
    /\ Len(fn.variant) <= MaxTextLen
    /\ i > 1
    /\ i <= Len(fn.variant)
    /\ fn.variant[i] = 780
    /\ IsLetter(fn.variant[i - 1])
    /\ fn' = [fn EXCEPT !.variant = RemoveAt(fn.variant, i)]
    /\ UNCHANGED <<catalog, remote, ticks, nextId, runs>>

\* the variant gets one more whitespace character, at an end or next to a
\* whitespace character
AddSpace(i, w) ==
    /\ fn.op = "normalize" /\ ~fn.done
    /\ Len(fn.variant) < MaxTextLen
    /\ fn.variant # <<>>
    /\ i <= Len(fn.variant)
    /\ \/ i = 0
       \/ i = Len(fn.variant)
       \/ (i > 0 /\ IsSpace(fn.variant[i]))
       \/ (i < Len(fn.variant) /\ IsSpace(fn.variant[i + 1]))
    /\ fn' = [fn EXCEPT !.variant = InsertAt(fn.variant, i, w)]
    /\ UNCHANGED <<catalog, remote, ticks, nextId, runs>>

\* the variant loses one whitespace character, at an end or next to a
\* whitespace character, or has it replaced by another
DropSpace(i, w) ==
    /\ fn.op = "normalize" /\ ~fn.done
    /\ Len(fn.variant) <= MaxTextLen
    /\ i <= Len(fn.variant)
    /\ IsSpace(fn.variant[i])
    /\ \/ /\ w = fn.variant[i]
          /\ \/ i = 1
             \/ i = Len(fn.variant)
             \/ (i > 1 /\ IsSpace(fn.variant[i - 1]))
             \/ (i < Len(fn.variant) /\ IsSpace(fn.variant[i + 1]))
          /\ Len(fn.variant) > 1
          /\ fn' = [fn EXCEPT !.variant = RemoveAt(fn.variant, i)]
       \/ /\ w # fn.variant[i]
          /\ fn' = [fn EXCEPT !.variant[i] = w]
    /\ UNCHANGED <<catalog, remote, ticks, nextId, runs>>

\* normalize_problem_name of the name and of its variant, and of the results
Normalize ==
    /\ fn.op = "normalize" /\ ~fn.done
    /\ LET result == normalize_problem_name(fn.name)
           variant_result == normalize_problem_name(fn.variant)
       IN  fn' = [fn EXCEPT !.result = result,
                            !.variant_result = variant_result,
                            !.again = normalize_problem_name(result),
                            !.variant_again = normalize_problem_name(variant_result),
                            !.done = TRUE]
    /\ UNCHANGED <<catalog, remote, ticks, nextId, runs>>

NormalizerNext ==
    \/ \E i \in 1..MaxTextLen : SwapCase(i)
    \/ \E i \in 1..MaxTextLen : SwapDiacritic(i)
    \/ \E i \in 1..MaxTextLen : AddMark(i)
    \/ \E i \in 1..MaxTextLen : DropMark(i)
    \/ \E i \in 0..MaxTextLen, w \in {32, 9} : AddSpace(i, w)
    \/ \E i \in 1..MaxTextLen, w \in {32, 9} : DropSpace(i, w)
    \/ Normalize

NormalizerSpec == NormalizerInit /\ [][NormalizerNext]_vars

\* C11: the Text Normalizer is idempotent: normalizing a normalized name,
\* of the name or of any of its variants, gives the normalized name again.
C11_NormalizeIdempotent ==
    (fn.op = "normalize" /\ fn.done) =>
        /\ fn.again = fn.result
        /\ fn.variant_again = fn.variant_result

\* a name with a mark, a space and an upper-case letter has been normalized
\* to something else, and normalizing the result changed nothing
C11_Witness ==
    /\ fn.op = "normalize" /\ fn.done
    /\ fn.name = <<780, 32, 67>>
    /\ fn.result = <<99>>
    /\ fn.again = <<99>>

----------------------------------------------------------------------------
(* Writes to the catalog store: BoulderProblem.save() of a new row and of a *)
(* row whose name was changed, and the lookup by normalized name            *)

\* BoulderProblem.save() of an instance with a valid sector: the rows of the
\* table afterwards; raised for the ValidationError of full_clean() (a blank
\* name or name_normalized, a second row of the same area and name)
BoulderProblem_save(problems, instance) ==
    LET saved == IF instance.name_normalized = <<>> /\ instance.name # <<>>
                 THEN [instance EXCEPT
                           !.name_normalized = normalize_problem_name(instance.name)]
                 ELSE instance
        others == SelectSeq(problems, LAMBDA b : b.id # instance.id)
        valid == /\ saved.name # <<>>
                 /\ saved.name_normalized # <<>>
                 /\ \A k \in 1..Len(others) :
                        ~(others[k].area = saved.area /\ others[k].name = saved.name)
    IN  IF ~valid THEN [raised |-> TRUE, problems |-> problems]
        ELSE IF \E k \in 1..Len(problems) : problems[k].id = instance.id
        THEN [raised |-> FALSE,
              problems |-> [k \in 1..Len(problems) |->
                              IF problems[k].id = instance.id THEN saved
                              ELSE problems[k]]]
        ELSE [raised |-> FALSE, problems |-> Append(problems, saved)]

\* the names written to the catalog: "Kniha", "KNIHA", "Hrana", "Komin" with
\* its diacritic, and the blank name
CatalogNames == {S_Kniha, S_KNIHA, S_Hrana, S_Komin, <<>>}

CatalogInit ==
    /\ catalog = [areas |-> <<Area(1, S_MoravskyKras)>>, problems |-> <<>>]
    /\ remote = RemoteSite(<<>>, "PageEmpty", "PagePlain")
    /\ ticks = {}
    /\ nextId = 1
    /\ runs = [r \in Runs |-> IdleRun]
    /\ fn = [op |-> "find", name |-> <<>>, rows |-> <<>>, raised |-> FALSE]

\* BoulderProblem(area=area, name=name, ...).save()
CreateProblem(name) ==
    LET instance == [id |-> Len(catalog.problems) + 1, name |-> name,
                     name_normalized |-> <<>>, area |-> 1, external_links |-> <<>>]
        res == BoulderProblem_save(catalog.problems, instance)
    IN  /\ Len(catalog.problems) < MaxProblems
        /\ catalog' = [catalog EXCEPT !.problems = res.problems]
        /\ fn' = [fn EXCEPT !.name = <<>>, !.rows = <<>>, !.raised = res.raised]
        /\ UNCHANGED <<remote, ticks, nextId, runs>>

\* problem = BoulderProblem.objects.get(id=...); problem.name = name;
\* problem.save()
RenameProblem(k, name) ==
    LET instance == [catalog.problems[k] EXCEPT !.name = name]
        res == BoulderProblem_save(catalog.problems, instance)
    IN  /\ k <= Len(catalog.problems)
        /\ name # catalog.problems[k].name
        /\ catalog' = [catalog EXCEPT !.problems = res.problems]
        /\ fn' = [fn EXCEPT !.name = <<>>, !.rows = <<>>, !.raised = res.raised]
        /\ UNCHANGED <<remote, ticks, nextId, runs>>

\* BoulderProblem.find_by_normalized_name(name, area=area)
FindProblem(name) ==
    /\ fn' = [fn EXCEPT !.name = name,
                        !.rows = find_by_normalized_name(catalog, name,
                                                         catalog.areas[1]),
                        !.raised = FALSE]
    /\ UNCHANGED <<catalog, remote, ticks, nextId, runs>>

CatalogNext ==
    \/ \E name \in CatalogNames : CreateProblem(name)
    \/ \E k \in 1..MaxProblems, name \in CatalogNames : RenameProblem(k, name)
    \/ \E name \in CatalogNames : FindProblem(name)

CatalogSpec == CatalogInit /\ [][CatalogNext]_vars

\* C13: after any sequence of create and rename-then-save operations, the
\* normalized name of every catalog problem is the normalized form of its
\* name, and a lookup by normalized name returns exactly the problems whose
\* present name normalizes to the name looked up.
C13_NormalizedNameTracksName ==
    /\ \A k \in 1..Len(catalog.problems) :
           catalog.problems[k].name_normalized =
               normalize_problem_name(catalog.problems[k].name)
    /\ (fn.op = "find" /\ fn.name # <<>>) =>
           \A k \in 1..Len(catalog.problems) :
               (\E j \in 1..Len(fn.rows) : fn.rows[j].id = catalog.problems[k].id)
                   <=> (normalize_problem_name(catalog.problems[k].name) =
                            normalize_problem_name(fn.name))

----------------------------------------------------------------------------
(* Table discovery applied to bounded pages                                 *)

\* "Den", "Celkem", "15.01x2024"
S_Den == <<68, 101, 110>>
S_Celkem == <<67, 101, 108, 107, 101, 109>>
S_dateOneDot == <<49, 53, 46, 48, 49, 120, 50, 48, 50, 52>>

\* a header row of th cells with the given texts
HeaderOf(texts) == [i \in 1..Len(texts) |-> Cell("th", texts[i])]

\* n data rows of the region, all of the given date, route and place
DataRows(n, date, name, location) ==
    [i \in 1..n |-> DataRow(date, name, S_href4821, location, <<>>)]

\* the tables of the model, by name: two diaries, three decoys whose header
\* lacks one marker, tables that fail one of the other tests, and a table
\* whose first data cell has ten characters and one dot
TableIds ==
    {"Diary", "OtherDiary", "DecoyNoDatum", "DecoyNoCesta", "DecoyNoKlas",
     "FewRows", "FewHeaders", "NoDate", "OneDot"}

Tables ==
    [id \in TableIds |->
        CASE id = "Diary" ->
               <<HeaderRow>> \o DataRows(5, S_date15, S_Kniha, S_Holstejn)
          [] id = "OtherDiary" ->
               <<HeaderRow>> \o DataRows(6, S_date16, S_Hrana, S_Sloup)
          [] id = "DecoyNoDatum" ->
               <<HeaderOf(<<S_Den, S_Cesta, S_Oblast, S_Klasifikace, S_Body, S_Styl>>)>>
                   \o DataRows(7, S_date17, S_Komin, S_Sloup)
          [] id = "DecoyNoCesta" ->
               <<HeaderOf(<<S_Datum, S_Body, S_Oblast, S_Klasifikace, S_Body, S_Styl>>)>>
                   \o DataRows(7, S_date17, S_Komin, S_Sloup)
          [] id = "DecoyNoKlas" ->
               <<HeaderOf(<<S_Datum, S_Cesta, S_Oblast, S_Body, S_Body, S_Styl>>)>>
                   \o DataRows(7, S_date17, S_Komin, S_Sloup)
          [] id = "FewRows" ->
               <<HeaderRow>> \o DataRows(4, S_date18, S_Komin, S_Sloup)
          [] id = "FewHeaders" ->
               <<HeaderOf(<<S_Datum, S_Cesta, S_Klasifikace>>)>>
                   \o DataRows(5, S_date18, S_Komin, S_Sloup)
          [] id = "NoDate" ->
               <<HeaderRow>> \o DataRows(5, S_Celkem, S_Komin, S_Sloup)
          [] id = "OneDot" ->
               <<HeaderRow>> \o DataRows(5, S_dateOneDot, S_Komin, S_Sloup)]

\* the page whose tables are the named ones, in page order
PageOfTables(ids) == [text |-> S_DenicekTitle, tables |-> [i \in 1..Len(ids) |-> Tables[ids[i]]]]

TableInit ==
    /\ ImporterAtRest
    /\ \E ids \in UNION {[1..n -> TableIds] : n \in 0..MaxTables} :
         fn = [op |-> "find_table", tables |-> ids, main_table |-> 0, done |-> FALSE]

\* _find_main_diary_table(soup)
FindTable ==
    /\ fn.op = "find_table"
    /\ ~fn.done
    /\ fn' = [fn EXCEPT !.main_table = _find_main_diary_table(PageOfTables(fn.tables)),
                        !.done = TRUE]
    /\ UNCHANGED <<catalog, remote, ticks, nextId, runs>>

TableNext == FindTable

TableSpec == TableInit /\ [][TableNext]_vars

\* the four conditions on a table: more rows than the minimum, the minimum
\* of header cells, the three header markers, a date-like first data cell
\* (ten characters with a dot among them)
Qualifies(table) ==
    /\ Len(table) > 5
    /\ Cardinality({i \in 1..Len(table[1]) : table[1][i].tag = "th"}) >= 4
    /\ \A marker \in {S_Datum, S_Cesta, S_Klas} :
           \E i \in 1..Len(table[1]) : Contains(table[1][i].text, marker)
    /\ \E i \in 1..Len(table[2]) :
           /\ table[2][i].tag = "td"
           /\ \A j \in 1..(i - 1) : table[2][j].tag # "td"
           /\ Len(table[2][i].text) = 10
           /\ \E p \in 1..10 : table[2][i].text[p] = 46

\* C14: Table Discovery returns the first table, in page order, that meets
\* the four conditions, and none when no table does; a decoy whose header
\* lacks one of the three markers is never selected.
C14_FirstQualifyingTable ==
    (fn.op = "find_table" /\ fn.done) =>
        LET qualifying == {i \in 1..Len(fn.tables) : Qualifies(Tables[fn.tables[i]])}
        IN  /\ qualifying = {} => fn.main_table = 0
            /\ qualifying # {} =>
                   /\ fn.main_table \in qualifying
                   /\ \A i \in qualifying : fn.main_table <= i
            /\ fn.main_table # 0 =>
                   fn.tables[fn.main_table]
                       \notin {"DecoyNoDatum", "DecoyNoCesta", "DecoyNoKlas"}

\* a decoy with many rows comes first, the diary second, another diary
\* third: the second table is returned
C14_Witness ==
    /\ fn.op = "find_table" /\ fn.done
    /\ fn.tables = <<"DecoyNoKlas", "Diary", "OtherDiary">>
    /\ fn.main_table = 2

----------------------------------------------------------------------------
(* The locale filter applied to bounded lists of entries                    *)

\* "Sloup 2", "kras"
S_Sloup2 == <<83, 108, 111, 117, 112, 32, 50>>
S_kras == <<107, 114, 97, 115>>

\* the locations of the entries: two of the allow-list, two with a
\* macro-region substring, and three with neither
FilterLocations ==
    {S_Holstejn, S_Sloup, S_NejakyKras, S_MoravskyKras, S_Brno, S_Sloup2, S_kras}

FilterEntries ==
    { [name |-> S_Kniha, lezec_id |-> S_4821, grade |-> S_7A,
       date |-> [year |-> 2024, month |-> 1, day |-> 15], style |-> <<>>,
       location |-> location] : location \in FilterLocations }

FilterInit ==
    /\ ImporterAtRest
    /\ \E tick_list \in UNION {[1..n -> FilterEntries] : n \in 0..MaxTicks} :
         fn = [op |-> "filter", ticks |-> tick_list, kept |-> <<>>, done |-> FALSE]

\* _filter_moravsky_kras_ticks(ticks)
Filter ==
    /\ fn.op = "filter"
    /\ ~fn.done
    /\ fn' = [fn EXCEPT !.kept = _filter_moravsky_kras_ticks(fn.ticks), !.done = TRUE]
    /\ UNCHANGED <<catalog, remote, ticks, nextId, runs>>

FilterNext == Filter

FilterSpec == FilterInit /\ [][FilterNext]_vars

\* the entry's location is one of the allow-listed names, or contains one of
\* the two macro-region substrings
InRegion(tick) ==
    \/ \E area \in MORAVSKY_KRAS_AREAS : tick.location = area
    \/ \E sub \in {S_Moravsky, S_Kras} :
           \E i \in 0..(Len(tick.location) - Len(sub)) :
               SubSeq(tick.location, i + 1, i + Len(sub)) = sub

\* C15: the Locale Filter keeps an entry if and only if its location equals
\* an allow-listed region name or contains "Moravsky" or "Kras"; the kept
\* entries come unaltered and in their original order ("Brno-stred" is
\* excluded, "Nejaky Kras" is included).
C15_FilterKeepsRegionInOrder ==
    (fn.op = "filter" /\ fn.done) =>
        LET keptAt == {i \in 1..Len(fn.ticks) : InRegion(fn.ticks[i])}
            Rank(i) == Cardinality({j \in keptAt : j <= i})
        IN  /\ Len(fn.kept) = Cardinality(keptAt)
            /\ \A i \in keptAt : fn.kept[Rank(i)] = fn.ticks[i]
            /\ \A k \in 1..Len(fn.kept) :
                   /\ fn.kept[k].location # S_Brno
                   /\ fn.kept[k].location \in
                          {S_Holstejn, S_Sloup, S_NejakyKras, S_MoravskyKras}
            /\ \A i \in 1..Len(fn.ticks) :
                   fn.ticks[i].location = S_NejakyKras =>
                       \E k \in 1..Len(fn.kept) : fn.kept[k] = fn.ticks[i]

\* of "Brno-stred", "Nejaky Kras" and "Holstejn", in this order, the second
\* and the third are kept, in this order
C15_Witness ==
    /\ fn.op = "filter" /\ fn.done
    /\ Len(fn.ticks) = 3
    /\ fn.ticks[1].location = S_Brno
    /\ fn.ticks[2].location = S_NejakyKras
    /\ fn.ticks[3].location = S_Holstejn
    /\ fn.kept = <<fn.ticks[2], fn.ticks[3]>>

----------------------------------------------------------------------------
(* Properties of the fetches of one request                                 *)

\* the strategy of an entry of the log of fetches of request r
StrategyOf(r, attempt) == _generate_username_strategies(runs[r].username)[attempt.k]

\* the strategies request r has fetched so far
Fetched(r) == {StrategyOf(r, runs[r].attempts[j]) : j \in 1..Len(runs[r].attempts)}

\* C16: within one run the candidates are fetched one at a time in list
\* order (a fetch takes the first candidate of the list not fetched yet that
\* lies after the one fetched last), and after a fetch that returned a
\* valid profile no fetch is issued.
C16_SequentialUntilValid ==
    [][\A r \in Runs :
         LET before == runs[r].attempts
             after == runs'[r].attempts
             strategies == _generate_username_strategies(runs[r].username)
         IN  \/ after = before
             \/ /\ Len(after) = Len(before) + 1
                /\ SubSeq(after, 1, Len(before)) = before
                /\ before # <<>> => before[Len(before)].outcome # "valid"
                /\ LET k == after[Len(after)].k
                       prev == IF before = <<>> THEN 0 ELSE before[Len(before)].k
                   IN  /\ prev < k
                       /\ strategies[k] \notin Fetched(r)
                       /\ \A m \in (prev + 1)..(k - 1) : strategies[m] \in Fetched(r)]_vars

\* the third candidate returned the valid profile after two that did not,
\* and the run ended with the candidates after it left unfetched
C16_Witness ==
    /\ runs[1].username = S_Lu
    /\ runs[1].pc = "done"
    /\ runs[1].i = 4
    /\ Len(runs[1].attempts) = 3
    /\ runs[1].attempts[3].outcome = "valid"
    /\ runs[1].attempts[3].k = 3
    /\ \A j \in 1..2 : runs[1].attempts[j].outcome # "valid"

\* C17: between two consecutive fetch attempts of one run the politeness
\* delay is observed: a run that has made n attempts has slept at least
\* n - 1 times.
C17_DelayBetweenAttempts ==
    \A r \in Runs :
        Len(runs[r].attempts) >= 2 => runs[r].sleeps >= Len(runs[r].attempts) - 1

\* C18: a candidate whose text cannot be encoded in windows-1250 and that
\* asks for this encoding is dropped: no fetch is issued for it.
C18_UnencodableCandidateDropped ==
    \A r \in Runs :
        \A j \in 1..Len(runs[r].attempts) :
            LET strategy == StrategyOf(r, runs[r].attempts[j])
            IN  ~(strategy.use_w1250 /\ EncodeWindows1250(strategy.identifier) = Raised)

\* the text variants of a display name: lowercase, original, capitalized
\* (first character upper-case, the rest lowercase) and upper-case
TextVariants(name) ==
    { Lower(name), name, Upper(name),
      [i \in 1..Len(name) |-> IF i = 1 THEN UpperChar(name[i]) ELSE LowerChar(name[i])] }

\* C19: the first fetch of a run is for the lowercased display name in the
\* legacy byte encoding with lowercase hex, and when an uppercase-hex
\* candidate is fetched every lowercase-hex candidate (the four text
\* variants, in both encodings) has been fetched before and found invalid.
C19_LowercaseHexFirst ==
    \A r \in Runs :
        LET attempts == runs[r].attempts
        IN  /\ attempts # <<>> =>
                   StrategyOf(r, attempts[1]) = Strategy(Lower(runs[r].username), FALSE, TRUE)
            /\ \A j \in 1..Len(attempts) :
                   StrategyOf(r, attempts[j]).uppercase_hex =>
                       \A text \in TextVariants(runs[r].username), w1250 \in BOOLEAN :
                           \E m \in 1..(j - 1) :
                               /\ StrategyOf(r, attempts[m]) = Strategy(text, FALSE, w1250)
                               /\ attempts[m].outcome # "valid"

\* the run for "Lu" fetched its six distinct lowercase-hex candidates in
\* vain and then the first uppercase-hex candidate
C19_Witness ==
    /\ runs[1].username = S_Lu
    /\ Len(runs[1].attempts) = 7
    /\ runs[1].attempts[7].k = 9
    /\ StrategyOf(1, runs[1].attempts[7]) = Strategy(S_lu, TRUE, TRUE)

\* C20: the candidates fetched in one run are pairwise distinct as
\* (text, uppercase hex, legacy encoding) triples.
C20_CandidatesDistinct ==
    \A r \in Runs :
        \A j, m \in 1..Len(runs[r].attempts) :
            j # m => StrategyOf(r, runs[r].attempts[j]) # StrategyOf(r, runs[r].attempts[m])

\* the run for the single character "l" went through its ten strategies,
\* of which five are repetitions, with five fetches
C20_Witness ==
    /\ runs[1].username = S_l
    /\ runs[1].pc = "done"
    /\ runs[1].i = 11
    /\ Len(runs[1].attempts) = 5
    /\ Cardinality(runs[1].tried) = 5

\* C21: a fetched page whose text has no title marker is never reported as
\* a valid profile: the fetch returns the parsed page with found = False,
\* which is not the (None, False) of a transport error, and the loop goes on
\* to the next candidate when there is one.
C21_NoMarkerNotValid ==
    \A r \in Runs :
        LET attempts == runs[r].attempts
        IN  \A j \in 1..Len(attempts) :
                (attempts[j].response # "RequestException"
                 /\ ~HasMarker(attempts[j].response)) =>
                    /\ attempts[j].outcome = "invalid"
                    /\ attempts[j].soup = attempts[j].response
                    /\ attempts[j].soup # NoSoup
                    /\ (j = Len(attempts)
                        /\ runs[r].i <= Len(_generate_username_strategies(runs[r].username)))
                           => runs[r].pc = "find"

\* the first candidate got a page with a diary table and no title: it was
\* found invalid and the run is at its next candidate
C21_Witness ==
    /\ Len(runs[1].attempts) = 1
    /\ runs[1].attempts[1].response = "PageTableNoTitle"
    /\ runs[1].attempts[1].outcome = "invalid"
    /\ runs[1].attempts[1].soup = "PageTableNoTitle"
    /\ runs[1].pc = "find"
    /\ runs[1].i = 2

\* C22: a table is accepted as the data table only if the first cell of its
\* first data row has exactly 10 characters of which exactly two are '.'.
C22_DateCellPattern ==
    (fn.op = "find_table" /\ fn.done /\ fn.main_table # 0) =>
        LET row == Tables[fn.tables[fn.main_table]][2]
            text == CellsWithTag(row, "td")[1].text
        IN  /\ Len(text) = 10
            /\ Cardinality({p \in 1..Len(text) : text[p] = 46}) = 2

----------------------------------------------------------------------------
(* The extraction applied to bounded diary tables                           *)

\* "31.02.2024", a date that does not exist
S_date31Feb == <<51, 49, 46, 48, 50, 46, 50, 48, 50, 52>>

\* the rows of the model, by name: a full row, a row of four cells and a
\* link without route id, a row of three cells, a row with a date that
\* does not parse, and a row whose second cell has no link
RowIds == {"Good", "FourCells", "ThreeCells", "BadDate", "NoAnchor"}

DiaryRows ==
    [id \in RowIds |->
        CASE id = "Good" ->
               DataRow(S_date15, S_Kniha, S_href4821, S_Holstejn, S_Flash)
          [] id = "FourCells" ->
               << Cell("td", S_date16), LinkCell(S_Hrana, S_hrefOther),
                  Cell("td", S_Sloup), Cell("td", S_7A) >>
          [] id = "ThreeCells" ->
               << Cell("td", S_date17), LinkCell(S_Komin, S_href77), Cell("td", S_Sloup) >>
          [] id = "BadDate" ->
               DataRow(S_date31Feb, S_Komin, S_href77, S_Sloup, <<>>)
          [] id = "NoAnchor" ->
               << Cell("td", S_date18), Cell("td", S_Komin), Cell("td", S_Sloup),
                  Cell("td", S_7A), Cell("td", <<>>), Cell("td", <<>>) >>]

\* the page with one table of the header row and the named data rows
PageOfRows(ids) ==
    [text |-> S_DenicekTitle,
     tables |-> << <<HeaderRow>> \o [i \in 1..Len(ids) |-> DiaryRows[ids[i]]] >>]

ExtractInit ==
    /\ ImporterAtRest
    /\ \E ids \in UNION {[1..n -> RowIds] : n \in 5..MaxRows} :
         fn = [op |-> "extract", rows |-> ids, ticks |-> <<>>, done |-> FALSE]

\* _extract_ticks_from_diary(soup, base_url)
Extract ==
    /\ fn.op = "extract"
    /\ ~fn.done
    /\ fn' = [fn EXCEPT !.ticks = _extract_ticks_from_diary(PageOfRows(fn.rows)),
                        !.done = TRUE]
    /\ UNCHANGED <<catalog, remote, ticks, nextId, runs>>

ExtractNext == Extract

ExtractSpec == ExtractInit /\ [][ExtractNext]_vars

\* the entry of each row that has at least 4 cells, a date and a link
EntryOfRow ==
    [id \in {"Good", "FourCells"} |->
        IF id = "Good"
        THEN [name |-> S_Kniha, lezec_id |-> S_4821, grade |-> S_7A,
              date |-> [year |-> 2024, month |-> 1, day |-> 15],
              style |-> S_Flash, location |-> S_Holstejn]
        ELSE [name |-> S_Hrana, lezec_id |-> <<>>, grade |-> S_7A,
              date |-> [year |-> 2024, month |-> 1, day |-> 16],
              style |-> <<>>, location |-> S_Sloup]]

\* C23: a data row with fewer than 4 cells, with a date that does not parse
\* or without a link in its second cell is skipped, and every other row of
\* the data table yields exactly one entry, in table order.
C23_BadRowsSkipped ==
    (fn.op = "extract" /\ fn.done) =>
        LET goodAt == {i \in 1..Len(fn.rows) : fn.rows[i] \in DOMAIN EntryOfRow}
            Rank(i) == Cardinality({j \in goodAt : j <= i})
        IN  /\ Len(fn.ticks) = Cardinality(goodAt)
            /\ \A i \in goodAt : fn.ticks[Rank(i)] = EntryOfRow[fn.rows[i]]

\* a table with the three kinds of bad row between two good rows gave the
\* entries of the two good rows
C23_Witness ==
    /\ fn.op = "extract" /\ fn.done
    /\ fn.rows = <<"Good", "ThreeCells", "BadDate", "NoAnchor", "FourCells">>
    /\ Len(fn.ticks) = 2
    /\ fn.ticks[1].name = S_Kniha
    /\ fn.ticks[2].name = S_Hrana

----------------------------------------------------------------------------
(* Properties of the tiers of the matcher                                   *)

\* the macro-region candidate areas of a catalog, in iteration order: the
\* areas whose name contains "Moravsky" or "Kras", whatever the case
CandidateAreas(cat) ==
    SelectSeq(cat.areas,
              LAMBDA a : \/ Contains(Lower(a.name), Lower(S_Moravsky))
                         \/ Contains(Lower(a.name), Lower(S_Kras)))

\* C24: an ExternalId match is returned only for a record that has a link
\* whose "key" query value is the entry's external id; a record whose link
\* carries another id (4821 for the entry id 48) is never returned by tier 1.
C24_IdMatchIsExact ==
    (fn.op = "match" /\ fn.done /\ fn.tier = "ExternalId") =>
        /\ fn.problem # <<>>
        /\ LinkedTo(fn.problem[1], fn.tick_data.lezec_id)

\* C25: an ExactNormalizedName match returns a problem whose normalized name
\* is the normalized name of the entry and whose area is the first candidate
\* area, in iteration order, that has a problem of that normalized name.
C25_ExactMatchFirstArea ==
    (fn.op = "match" /\ fn.done /\ fn.tier = "ExactNormalizedName") =>
        LET areas == CandidateAreas(catalog)
            Has(a) == \E k \in 1..Len(catalog.problems) :
                          /\ catalog.problems[k].area = areas[a].id
                          /\ NamedAs(catalog.problems[k], fn.tick_data)
        IN  /\ fn.problem # <<>>
            /\ NamedAs(fn.problem[1], fn.tick_data)
            /\ \E k \in 1..Len(catalog.problems) : catalog.problems[k] = fn.problem[1]
            /\ \E a \in 1..Len(areas) :
                   /\ fn.problem[1].area = areas[a].id
                   /\ Has(a)
                   /\ \A b \in 1..(a - 1) : ~Has(b)

\* "Kniha" is in both macro-region areas: the row of the first area is
\* returned, which is the second of the two in the table
C25_Witness ==
    /\ fn.op = "match" /\ fn.done
    /\ catalog = CatalogTwoKras
    /\ fn.tick_data.name = S_KNIHA
    /\ fn.tier = "ExactNormalizedName"
    /\ fn.problem = <<catalog.problems[2]>>

\* a problem was returned, no scanned record has a link with the entry's id,
\* no record of a candidate area has the entry's normalized name, and the
\* problem returned is in a candidate area
PartialAfterOtherTiers ==
    LET areas == CandidateAreas(catalog)
    IN  /\ fn.problem # <<>>
        /\ ~\E k \in ScannedByTier1(catalog, fn.tick_data.location) :
               /\ fn.tick_data.lezec_id # <<>>
               /\ HasLinkWithKey(catalog.problems[k], fn.tick_data.lezec_id)
        /\ ~\E k \in 1..Len(catalog.problems) :
               /\ NamedAs(catalog.problems[k], fn.tick_data)
               /\ \E a \in 1..Len(areas) : catalog.problems[k].area = areas[a].id
        /\ \E a \in 1..Len(areas) : fn.problem[1].area = areas[a].id

\* C26 as the spec states it: a PartialName match is returned only when
\* ExternalId and ExactNormalizedName have failed, and the name of the problem
\* returned contains the first 10 characters of the entry's name,
\* case-sensitively, and the problem is in a macro-region candidate area.
C26_PartialMatchCaseSensitive ==
    (fn.op = "match" /\ fn.done /\ fn.tier = "PartialName") =>
        /\ PartialAfterOtherTiers
        /\ Contains(fn.problem[1].name, Prefix(fn.tick_data.name, 10))

\* C26, amended: as above, the substring test being case-insensitive
\* (name__icontains).
C26_PartialMatchCaseInsensitive ==
    (fn.op = "match" /\ fn.done /\ fn.tier = "PartialName") =>
        /\ PartialAfterOtherTiers
        /\ IContains(fn.problem[1].name, Prefix(fn.tick_data.name, 10))

\* the entry "kni" without an external id matches "Kniha" by its prefix
C26_Witness ==
    /\ fn.op = "match" /\ fn.done
    /\ fn.tier = "PartialName"
    /\ fn.tick_data.name = S_kni
    /\ fn.tick_data.lezec_id = <<>>
    /\ fn.problem # <<>>
    /\ fn.problem[1].name = S_Kniha
----------------------------------------------------------------------------
(* Properties of the processing loop *)

\* the three tiers of the matcher fail for the entry: it has no external id or
\* no scanned record has a link with "key=<id>", no record of a candidate
\* area has its normalized name, and no record of a candidate area has a name
\* that contains its first 10 characters, whatever the case
AllTiersFail(cat, tick_data) ==
    LET areas == CandidateAreas(cat)
        InCandidateArea(b) == \E a \in 1..Len(areas) : b.area = areas[a].id
    IN  /\ \/ tick_data.lezec_id = <<>>
           \/ ~\E k \in ScannedByTier1(cat, tick_data.location) :
                  HasLinkWithKey(cat.problems[k], tick_data.lezec_id)
        /\ ~\E k \in 1..Len(cat.problems) :
               /\ InCandidateArea(cat.problems[k])
               /\ NamedAs(cat.problems[k], tick_data)
        /\ ~\E k \in 1..Len(cat.problems) :
               /\ InCandidateArea(cat.problems[k])
               /\ IContains(cat.problems[k].name, Prefix(tick_data.name, 10))

\* the step is the match of the current entry of run r
MatchStep(r) ==
    /\ runs[r].pc = "process"
    /\ runs'[r].matchCalls = runs[r].matchCalls + 1

\* C27: the match of an entry counts it as not found exactly when the three
\* tiers fail for it; the run then adds one to not_found, creates no Tick,
\* leaves matched, created, existing and errors as they are, and goes on with
\* the next entry (or returns after the last); not_found changes in no other
\* step.
C27_UnmatchedCountedAndSkipped ==
    [][\A r \in Runs :
         LET run == runs[r]
             after == runs'[r]
         IN  /\ MatchStep(r) =>
                   LET unmatched == AllTiersFail(catalog, run.todo[run.idx])
                   IN  /\ unmatched <=> after.stats.not_found = run.stats.not_found + 1
                       /\ ~unmatched => after.stats.not_found = run.stats.not_found
                       /\ unmatched =>
                             /\ ticks' = ticks
                             /\ after.createCalls = run.createCalls
                             /\ after.stats = [run.stats EXCEPT
                                                 !.not_found = run.stats.not_found + 1]
                             /\ after.idx = run.idx + 1
                             /\ IF run.idx < Len(run.todo)
                                THEN after.pc = "process"
                                ELSE after.pc = "done"
             /\ (run.pc \in {"process", "create"} /\ ~MatchStep(r)) =>
                   after.stats.not_found = run.stats.not_found
    ]_vars

\* a run counted its first entry as not found and is at its second entry
C27_Witness ==
    \E r \in Runs :
        /\ runs[r].pc = "process"
        /\ runs[r].idx = 2
        /\ runs[r].stats = [ZeroStats EXCEPT !.not_found = 1]
        /\ ticks = {}
\* C29: a run enters the loop of _process_ticks with all counters 0, whatever
\* the runs before it counted; while it processes, matched + not_found is the
\* number of entries done and matched = created + existing + errors once the
\* entry is done; a successful result carries the counters, with
\* matched + not_found the number of filtered entries.
C29_StatisticsAccounting ==
    \A r \in Runs :
        LET run == runs[r]
            st == run.stats
        IN  /\ (run.pc = "process" /\ run.idx = 1) => st = ZeroStats
            /\ run.pc = "process" =>
                  /\ st.matched + st.not_found = run.idx - 1
                  /\ st.matched = st.created + st.existing + st.errors
            /\ run.pc = "create" =>
                  /\ st.matched + st.not_found = run.idx
                  /\ st.matched = st.created + st.existing + st.errors + 1
            /\ (run.pc = "done" /\ run.result # <<>> /\ run.result[1].success) =>
                  /\ run.result[1] = SuccessResponse(st)
                  /\ st.matched + st.not_found = Len(run.todo)
                  /\ st.matched = st.created + st.existing + st.errors
                  /\ Len(run.todo) > 0

\* a run returned with one entry created, one existing and one in error, and
\* the run after it is at its first entry
C29_Witness ==
    \E r, q \in Runs :
        /\ runs[r].pc = "done"
        /\ runs[r].result # <<>>
        /\ runs[r].result[1].success
        /\ runs[r].result[1].matched = 3
        /\ runs[r].result[1].created = 1
        /\ runs[r].result[1].existing = 1
        /\ runs[r].result[1].errors = 1
        /\ runs[q].pc = "process"
        /\ runs[q].idx = 1
        /\ r \in runs[q].prevs

\* C30: a step changes the Tick table only by adding one row, for the user of
\* a run that is creating, the problem the matcher returns for the run's
\* current entry and the date of that entry, under an id no row has; every
\* row that was in the table stays as it was, and the catalog never changes.
C30_OnlyAddsOwnTicks ==
    [][/\ catalog' = catalog
       /\ ticks \subseteq ticks'
       /\ Cardinality(ticks' \ ticks) <= 1
       /\ \A t \in ticks' \ ticks :
             /\ \A old \in ticks : old.id # t.id
             /\ \E r \in Runs :
                   LET run == runs[r]
                       tick_data == run.todo[run.idx]
                       matched == _find_matching_boulder(catalog, tick_data)
                   IN  /\ run.pc = "create"
                       /\ runs'[r].createCalls = run.createCalls + 1
                       /\ run.idx \in 1..Len(run.todo)
                       /\ matched # <<>>
                       /\ t.user = run.user
                       /\ t.problem = matched[1].id
                       /\ t.date = tick_data.date
    ]_vars

\* two users have imported the same diary: each has a row of their own for the
\* same problem and both runs have returned
C30_Witness ==
    /\ \A r \in Runs : runs[r].pc = "done"
    /\ \E t1, t2 \in ticks :
          /\ t1.user = 1
          /\ t2.user = 2
          /\ t1.problem = t2.problem
          /\ t1.id # t2.id
----------------------------------------------------------------------------
(* Termination of a run *)

\* C28: the run fetches at most once per candidate and each candidate at most
\* once, matches at most once per filtered entry and creates at most once per
\* match, and once it has started it returns a result: after the last
\* candidate or the first valid page, and after the last entry, whatever the
\* fetches, the matches and the creates gave.
C28_RunTerminates ==
    /\ [][LET after == runs'[1]
              strategies == _generate_username_strategies(after.username)
          IN  /\ Len(after.attempts) <= Len(strategies)
              /\ \A a, b \in 1..Len(after.attempts) :
                     a < b => after.attempts[a].k < after.attempts[b].k
              /\ after.matchCalls <= Len(after.todo)
              /\ after.createCalls <= after.matchCalls
              /\ after.pc \in {"idle", "find", "process", "create", "done"}
              /\ after.pc = "done" =>
                     /\ after.result # <<>>
                     /\ after.result[1].success => after.matchCalls = Len(after.todo)
         ]_vars
    /\ (runs[1].pc # "idle") ~> (runs[1].pc = "done" /\ runs[1].result # <<>>)

\* the run returned its statistics after fetches that were not valid, three
\* matches and a create that failed and was not tried again
C28_Witness ==
    /\ runs[1].pc = "done"
    /\ runs[1].result # <<>>
    /\ runs[1].result[1].success
    /\ Len(runs[1].attempts) >= 2
    /\ runs[1].matchCalls = 3
    /\ runs[1].createCalls = 2
    /\ runs[1].stats.errors = 1
====
